---- MODULE Spec2Model ----
(***************************************************************************)
(* Model of the AlphaWeaver Go client: the polling scheduler               *)
(* (polling.go), the control loop that drives it (downloader.go,           *)
(* GUI.runDaemon and the start/stop handlers), the burst trigger fed by    *)
(* upload events, and the jobs/{to_do,in_progress,done,error} folders.     *)
(*                                                                         *)
(* time.Duration is an int64 count of nanoseconds.  A duration is held     *)
(* here as a record [ms, ns] with 0 <= ns < NsPerMs, its value being       *)
(* ms * NsPerMs + ns nanoseconds, so that every operation is exact.        *)
(***************************************************************************)
EXTENDS Integers, Naturals, Sequences, FiniteSets, TLC

(***************************************************************************)
(* Bounds of the model.                                                    *)
(***************************************************************************)
NJobs == 5          \* job ids the cloud can hand out
MaxBatch == 1       \* jobs in one poll response (at most PollLimit)
MaxPolls == 2       \* polls recorded by the control loops
MaxStarts == 2      \* presses of "start monitoring"
RestartPolls == 1   \* polls recorded while monitoring is restarted
SessionEvents == 1  \* upload events during one monitoring session
MaxEvents == 2      \* upload events handled
MaxFeeds == 4       \* UpdateMetrics calls on a scheduler driven directly
MaxCalls == 4       \* CalculateOptimalInterval calls on such a scheduler
NFolderJobs == 2    \* job ids in the model of the folders alone
MaxWatchStarts == 3 \* Start calls on a watcher
NTriedJobs == 1     \* jobs whose download is followed step by step
NOptFiles == 1      \* .opt file names
NRepFiles == 1      \* *_Daily.rep file names
NBatchJobs == 2     \* jobs of one DownloadJobs call
NCloudJobs == 2     \* jobs the cloud holds for a control loop followed alone
NSemJobs == 4       \* jobs of one DownloadJobs call under the build's ceiling
MaxCeiling == 3     \* Download.MaxConcurrent, from 0
MaxBudget == 2      \* Download.RetryAttempts, from 0
MaxScans == 2       \* scanAndUploadDailySummaries goroutines alive at once
MaxOptStarts == 2   \* Start calls on the OptUploadManager, and on the DailySummaryUploadManager
MaxUploads == 3     \* uploads the cloud accepts in a bounded run
MaxTokens == 4      \* tokens of a descriptor text
NChunks == 2        \* writes io.Copy makes for one .job
MaxRuns == 3        \* oos_runs of a walk-forward descriptor
MaxSymbols == 3     \* entries of the symbols list of a descriptor

(***************************************************************************)
(* Configuration: DefaultConfig (config.go), the only configuration the    *)
(* program loads.                                                          *)
(***************************************************************************)
PollLimit == 10
PollInterval == 300000
MaxInterval == 1800000
MinInterval == 300000
Adaptive == TRUE
RemainingJobsThreshold == 3
JobThreshold == 3
BurstChanCap == 1
EmptyPollLimit == 3
MaxConcurrent == 3
RetryAttempts == 3
NsPerMs == 1000000
SavedOSPercentage == 20  \* wfo_retest_integration.go:188

(***************************************************************************)
(* time.Duration arithmetic.                                               *)
(***************************************************************************)
Millis(m) == [ms |-> m, ns |-> 0]

Zero == Millis(0)

DurLess(a, b) == a.ms < b.ms \/ (a.ms = b.ms /\ a.ns < b.ns)

DurLeq(a, b) == a = b \/ DurLess(a, b)

\* d / 2 on int64 nanoseconds
DurHalf(d) ==
    [ms |-> d.ms \div 2, ns |-> ((d.ms % 2) * NsPerMs + d.ns) \div 2]

\* a growth factor of 1.5 instead of 1.2
DurGrowByHalf(d) ==
    LET m3 == d.ms * 3
        low == ((m3 % 2) * NsPerMs + d.ns * 3) \div 2
    IN  [ms |-> (m3 \div 2) + (low \div NsPerMs), ns |-> low % NsPerMs]

\* time.Duration(float64(d) * 1.2): the product truncated to nanoseconds
DurGrow(d) ==
    LET m6 == d.ms * 6
        low == ((m6 % 5) * NsPerMs + d.ns * 6) \div 5
    IN  [ms |-> (m6 \div 5) + (low \div NsPerMs), ns |-> low % NsPerMs]

GetPollInterval == Millis(PollInterval)

GetMaxPollInterval == Millis(MaxInterval)

GetMinPollInterval == Millis(MinInterval)

VARIABLES
    \* PollingOptimizer (polling.go:10-18)
    consecutiveEmptyPolls, currentInterval, totalPolls, successfulPolls,
    burstPollChan,
    \* Config.BurstPolling switches read by HandleUploadEvent
    burstCfg,
    \* the jobs/* folders on disk, and whether jobs/to_do can be listed
    files, todoReadable,
    \* GUI (downloader.go:628-629) and the runDaemon goroutines it started
    isPolling, stopCh, closedCh, daemons,
    \* the GUI's event goroutine: the handler it is in, and the
    \* startCSVMonitoring and startOptMonitoring goroutines that have not run
    gui,
    \* the HandleUploadEvent goroutines
    handlers,
    \* history: the last CalculateOptimalInterval call, and the results of
    \* the current run of empty polls
    call, feed,
    \* CSVUploadManager (csv_uploader.go:27-35) and the monitorFolder
    \* goroutines it started
    isRunning, watchStopCh, watchClosed, monitors,
    \* DownloadManager.sem (tokens held) and the locals of the downloadJob
    \* goroutines
    sem, tries,
    \* the opt/* folders, UploadEventChan, the three goroutine kinds working
    \* on them, and the history of what they did with each file
    optFolders, uploadEventChan, optWatch, scans, dsum, optResult, repResult,
    uploads,
    \* OptUploadManager and DailySummaryUploadManager: isRunning and stopCh
    managers,
    \* DownloadFile: the body read from the response, the text written to
    \* the descriptor file, and how far the call is
    xmlContent, finalContent, expandPc,
    \* Config.Poll.ExponentialBackoff
    backoffCfg,
    \* the CompressXMLFile calls in progress
    packing,
    \* the second pass of one walk-forward .opt file
    retest,
    \* the last call of a FileManager move function and what it returned
    moveCall,
    \* one checkAndTriggerCombinedWFO call: the job lookup, the .opt content
    \* and what was decided
    detect,
    \* one file the Engine writes piece by piece, and its reader
    written,
    \* the DownloadManager's settings and its DownloadJobs calls: the results
    \* channel and the statistics of each
    batch

schedVars == <<consecutiveEmptyPolls, currentInterval, totalPolls, successfulPolls>>

histVars == <<call, feed>>

fsVars == <<files, todoReadable>>

burstVars == <<burstPollChan, burstCfg, handlers>>

guiVars == <<isPolling, stopCh, closedCh, daemons, gui>>

watchVars == <<isRunning, watchStopCh, watchClosed, monitors>>

dlVars == <<sem, tries>>
optVars == <<optFolders, uploadEventChan, optWatch, scans, dsum, optResult,
            repResult, uploads, managers>>
expandVars == <<xmlContent, finalContent, expandPc>>
knobVars == <<backoffCfg>>
packVars == <<packing>>
retestVars == <<retest>>
lateVars == <<moveCall, detect, written, batch>>

\* what the goroutines of a DownloadJobs call leave alone
goVars == <<todoReadable, schedVars, histVars, burstVars, guiVars, watchVars, optVars,
           expandVars, knobVars, packVars, retestVars, moveCall, detect, written>>

\* what the scheduler and the control loop leave alone
restVars == <<watchVars, dlVars, optVars, expandVars, knobVars, packVars, retestVars, lateVars>>

pollerVars == <<schedVars, histVars, fsVars, burstVars, guiVars>>

\* what the watchers leave alone
nonWatchVars == <<pollerVars, dlVars, optVars, expandVars, knobVars, packVars, retestVars, lateVars>>

vars == <<pollerVars, restVars>>

(***************************************************************************)
(* The jobs folders.  A file is <<job id, extension>>.                     *)
(***************************************************************************)
JobIds == 1..NJobs

\* the DownloadJobs calls: call c is the one control loop c is in
Calls == 1..MaxStarts

\* the downloadJob goroutines: <<c, j>> is started by call c for job j
Runs == Calls \X JobIds

Statuses == {"to_do", "in_progress", "done", "error"}

JobFile(j) == <<j, "job">>

\* PollingOptimizer.countJobsInFolder: (count, err)
countJobsInFolder(entries, readable) ==
    IF ~readable
    THEN [count |-> 0, err |-> TRUE]
    ELSE [count |-> Cardinality({f \in entries : f[2] = "job"}), err |-> FALSE]

countJobsInNewFolder == countJobsInFolder(files["to_do"], todoReadable)

\* the number of .job files that are in jobs/to_do, readable or not
Backlog == Cardinality({f \in files["to_do"] : f[2] = "job"})

OnDisk(j) == \E s \in Statuses : JobFile(j) \in files[s]

(***************************************************************************)
(* The scheduler: polling.go.                                              *)
(***************************************************************************)
calculateAdaptiveInterval(hasJobs, remaining, cur) ==
    IF hasJobs /\ remaining <= RemainingJobsThreshold
    THEN GetMinPollInterval
    ELSE IF hasJobs
    THEN IF DurLess(DurHalf(cur), GetMinPollInterval)
         THEN GetMinPollInterval
         ELSE DurHalf(cur)
    ELSE IF DurLess(GetMaxPollInterval, DurGrow(cur))
         THEN GetMaxPollInterval
         ELSE DurGrow(cur)

\* The interval within [min, max] (polling.go:66-72)
ClampInterval(d) ==
    LET lo == IF DurLess(d, GetMinPollInterval) THEN GetMinPollInterval ELSE d
    IN  IF DurLess(GetMaxPollInterval, lo) THEN GetMaxPollInterval ELSE lo

\* the hot cadence tested before the backlog
OptimalIntervalHotFirst(hasJobs, remaining, jc, empties, cur) ==
    IF hasJobs /\ remaining <= RemainingJobsThreshold
    THEN [ret |-> GetMinPollInterval, cur |-> cur]
    ELSE IF ~jc.err /\ jc.count > RemainingJobsThreshold
    THEN [ret |-> Zero, cur |-> cur]
    ELSE IF empties >= EmptyPollLimit
    THEN [ret |-> GetMaxPollInterval, cur |-> cur]
    ELSE LET interval == IF Adaptive
                         THEN calculateAdaptiveInterval(hasJobs, remaining, cur)
                         ELSE cur
         IN  [ret |-> ClampInterval(interval), cur |-> ClampInterval(interval)]

\* the cold cadence returning the minimum interval
OptimalIntervalColdMin(hasJobs, remaining, jc, empties, cur) ==
    IF ~jc.err /\ jc.count > RemainingJobsThreshold
    THEN [ret |-> Zero, cur |-> cur]
    ELSE IF hasJobs /\ remaining <= RemainingJobsThreshold
    THEN [ret |-> GetMinPollInterval, cur |-> cur]
    ELSE IF empties >= EmptyPollLimit
    THEN [ret |-> GetMinPollInterval, cur |-> cur]
    ELSE LET interval == IF Adaptive
                         THEN calculateAdaptiveInterval(hasJobs, remaining, cur)
                         ELSE cur
         IN  [ret |-> ClampInterval(interval), cur |-> ClampInterval(interval)]

\* the hot cadence returning the maximum interval
OptimalIntervalHotMax(hasJobs, remaining, jc, empties, cur) ==
    IF ~jc.err /\ jc.count > RemainingJobsThreshold
    THEN [ret |-> Zero, cur |-> cur]
    ELSE IF hasJobs /\ remaining <= RemainingJobsThreshold
    THEN [ret |-> GetMaxPollInterval, cur |-> cur]
    ELSE IF empties >= EmptyPollLimit
    THEN [ret |-> GetMaxPollInterval, cur |-> cur]
    ELSE LET interval == IF Adaptive
                         THEN calculateAdaptiveInterval(hasJobs, remaining, cur)
                         ELSE cur
         IN  [ret |-> ClampInterval(interval), cur |-> ClampInterval(interval)]

\* CalculateOptimalInterval as a function of what it reads: its arguments,
\* the count of the to_do folder, and the optimizer's fields.  ret is the
\* returned duration (Zero: stop polling), cur the new currentInterval.
OptimalInterval(hasJobs, remaining, jc, empties, cur) ==
    IF ~jc.err /\ jc.count > RemainingJobsThreshold
    THEN [ret |-> Zero, cur |-> cur]
    ELSE IF hasJobs /\ remaining <= RemainingJobsThreshold
    THEN [ret |-> GetMinPollInterval, cur |-> cur]
    ELSE IF empties >= EmptyPollLimit
    THEN [ret |-> GetMaxPollInterval, cur |-> cur]
    ELSE LET interval == IF Adaptive
                         THEN calculateAdaptiveInterval(hasJobs, remaining, cur)
                         ELSE cur
         IN  [ret |-> ClampInterval(interval), cur |-> ClampInterval(interval)]

\* history kept for the properties: a run of empty polls is a sequence of
\* UpdateMetrics(0), CalculateOptimalInterval(false, ...) pairs; start is the
\* optimizer's state when the run began, out the results returned in it
NoFeed == [start |-> [cur |-> Zero, empties |-> 0], expectCalc |-> FALSE, out |-> <<>>]

FeedAfterMetrics(jobCount) ==
    IF jobCount > 0
    THEN NoFeed
    ELSE IF feed.expectCalc \/ feed.out = <<>>
    THEN [start |-> [cur |-> currentInterval, empties |-> consecutiveEmptyPolls],
          expectCalc |-> TRUE, out |-> <<>>]
    ELSE [feed EXCEPT !.expectCalc = TRUE]

FeedAfterCalc(hasJobs, ret) ==
    IF ~hasJobs /\ feed.expectCalc
    THEN [feed EXCEPT !.expectCalc = FALSE, !.out = Append(@, ret)]
    ELSE NoFeed

\* PollingOptimizer.UpdateMetrics on the values its increments read: the
\* fields are plain ints, each ++ is a read and a store
StoreMetrics(jobCount, total, successful, empties) ==
    /\ totalPolls' = total + 1
    /\ IF jobCount > 0
       THEN /\ successfulPolls' = successful + 1
            /\ consecutiveEmptyPolls' = 0
       ELSE /\ consecutiveEmptyPolls' = empties + 1
            /\ UNCHANGED successfulPolls
    /\ UNCHANGED <<currentInterval, call>>

\* PollingOptimizer.UpdateMetrics called with no other caller at work
DoUpdateMetrics(jobCount) ==
    /\ StoreMetrics(jobCount, totalPolls, successfulPolls, consecutiveEmptyPolls)
    /\ feed' = FeedAfterMetrics(jobCount)

\* whether CalculateOptimalInterval gets to po.currentInterval = interval
\* (polling.go:74): none of the three early returns is taken
StoresInterval(hasJobs, remaining, jc, empties) ==
    /\ ~(~jc.err /\ jc.count > RemainingJobsThreshold)
    /\ ~(hasJobs /\ remaining <= RemainingJobsThreshold)
    /\ empties < EmptyPollLimit

\* PollingOptimizer.CalculateOptimalInterval on what it read: the count jc of
\* jobs/to_do (backlog: the .job files that were there), the empty polls and
\* the current interval
StoreInterval(hasJobs, remaining, jc, backlog, empties, cur) ==
    LET r == OptimalInterval(hasJobs, remaining, jc, empties, cur)
    IN  /\ currentInterval' = IF StoresInterval(hasJobs, remaining, jc, empties)
                              THEN r.cur
                              ELSE currentInterval
        /\ call' = [n |-> call.n + 1, hasJobs |-> hasJobs,
                    backlog |-> backlog, err |-> jc.err, ret |-> r.ret]
        /\ UNCHANGED <<consecutiveEmptyPolls, totalPolls, successfulPolls>>

\* PollingOptimizer.CalculateOptimalInterval called with no other caller at
\* work
DoCalculateOptimalInterval(hasJobs, remaining) ==
    /\ StoreInterval(hasJobs, remaining, countJobsInNewFolder, Backlog,
                     consecutiveEmptyPolls, currentInterval)
    /\ feed' = FeedAfterCalc(hasJobs, call'.ret)

(***************************************************************************)
(* The jobs folders: the downloader puts descriptors in to_do, the engine  *)
(* moves them on.                                                          *)
(***************************************************************************)
\* os.Rename(fromPath, toPath): the file leaves from and replaces whatever
\* to held under that name; an absent source is an error and changes nothing
AfterMove(fs, j, from, to) ==
    IF JobFile(j) \notin fs[from] \/ from = to
    THEN fs
    ELSE [fs EXCEPT ![from] = @ \ {JobFile(j)}, ![to] = @ \cup {JobFile(j)}]

\* the answers of poll-jobs to a request for limit jobs, cloud being the
\* jobs the cloud holds for the agent: the cloud chooses among them, and a
\* job whose descriptor is on disk already may come again (Job.Redownload);
\* the client takes whatever comes
PollResponses(limit, cloud) ==
    {jobs \in SUBSET cloud : Cardinality(jobs) <= limit /\ Cardinality(jobs) <= PollLimit}

\* the newest descriptor waiting in to_do
LastInToDo == {j \in JobIds : JobFile(j) \in files["to_do"] /\
                  \A i \in JobIds : JobFile(i) \in files["to_do"] => i <= j}

\* FileManager.MoveJobFile(fileName, fromStatus, toStatus)
MoveJobFile(j, from, to) ==
    /\ files' = AfterMove(files, j, from, to)
    /\ UNCHANGED <<restVars, todoReadable, schedVars, histVars, burstVars, guiVars>>

\* the engine takes the newest descriptor from to_do
EngineTakes == \E j \in LastInToDo : MoveJobFile(j, "to_do", "in_progress")

\* the engine has no descriptor in hand
EngineFree == files["in_progress"] = {}

\* the to_do folder becomes unreadable (os.ReadDir fails), or readable again
SetTodoReadable(b) ==
    /\ todoReadable # b
    /\ todoReadable' = b
    /\ UNCHANGED <<restVars, files, schedVars, histVars, burstVars, guiVars>>

(***************************************************************************)
(* The scheduler driven directly through its operations.                   *)
(***************************************************************************)
UpdateMetrics(jobCount) ==
    /\ totalPolls < MaxFeeds
    /\ DoUpdateMetrics(jobCount)
    /\ UNCHANGED <<restVars, burstVars, fsVars, guiVars>>

CalculateOptimalInterval(hasJobs, remaining) ==
    /\ call.n < MaxCalls
    /\ DoCalculateOptimalInterval(hasJobs, remaining)
    /\ UNCHANGED <<restVars, burstVars, fsVars, guiVars>>

\* what a loop has read of the optimizer's fields and of jobs/to_do and not
\* yet used
NoSeen == [total |-> 0, successful |-> 0, empties |-> 0, cur |-> Zero,
           jc |-> [count |-> 0, err |-> FALSE], backlog |-> 0]

\* a runDaemon goroutine not started yet; jobs: resp.Jobs of the poll
\* response in hand, count: its length, next: the interval decided, ch: the
\* stop channel the select in progress waits on
NoDaemon == [pc |-> "idle", remaining |-> 0, count |-> 0, jobs |-> {},
             seen |-> NoSeen, next |-> Zero, ch |-> 0]

\* the GUI's event goroutine in no handler, no start goroutine waiting to run
NoGui == [pc |-> "idle", csv |-> 0, opt |-> 0]

NoHandler == [pc |-> "idle", eventType |-> "", backlog |-> 0, count |-> 0,
              err |-> FALSE, signaled |-> FALSE]

NoCall == [n |-> 0, hasJobs |-> FALSE, backlog |-> 0, err |-> FALSE,
           ret |-> Zero]

\* a monitorFolder goroutine not started yet; tick: a tick waits in ticker.C
NoMonitor == [pc |-> "idle", tick |-> FALSE]

\* NewCSVUploadManager: not running, a first stop channel (0) nobody reads
InitWatch ==
    /\ isRunning = FALSE
    /\ watchStopCh = 0
    /\ watchClosed = {}
    /\ monitors = [m \in 1..MaxWatchStarts |-> NoMonitor]

\* a downloadJob goroutine not started: attempt is the loop variable,
\* fetches the DownloadFile calls of the retry loop, slept the retry delays
\* waited, regens the ForceRegenerateXML calls, err the kind of lastErr, text
\* the descriptor text last fetched, held the text {stem}.xml holds, fix the
\* end of CheckAndFixXMLFile in this pass, packed the text the call has put
\* in the job's .job
NoTry == [pc |-> "idle", attempt |-> 0, fetches |-> 0, slept |-> 0, regens |-> 0,
          err |-> "none", success |-> FALSE, text |-> "none", held |-> "none",
          fix |-> "none", packed |-> "none"]

\* a goroutine that panics with no recover on its stack (the one recover of
\* the program, wfo_retest_integration.go:632-641, covers
\* replaceParametersWithFixed only) runs its deferred calls, and then the Go
\* runtime prints the panic and ends the process; until it has, the other
\* goroutines run on.  Crashed: the process has ended, no goroutine of the
\* client takes another step
Crashed ==
    \/ batch.fatal = "exited"
    \/ \E w \in 1..MaxOptStarts : optWatch[w].pc = "dead"
    \/ detect.pc = "dead"

\* NewDownloadManager: an empty semaphore, no download running
InitDownloads ==
    /\ sem = 0
    /\ tries = [g \in Runs |-> NoTry]

\* csv_uploader.go:24: make(chan UploadEvent, 100)
UploadEventChanCap == 100

OptFiles == {<<"opt", i>> : i \in 1..NOptFiles}
RepFiles == {<<"rep", i>> : i \in 1..NRepFiles}
OptFolderNames == {"in", "done", "error", "summary"}

\* NewOptUploadManager, NewDailySummaryUploadManager: not running; stopCh
\* counts the channels Start has made, closed holds the closed ones
NoManager == [isRunning |-> FALSE, stopCh |-> 0, closed |-> {}]

\* a watcher goroutine (monitorOptFolder, monitorSummaryFolder) not started
\* yet; todo: the listing still to go through, cur: the file in hand,
\* res: how its upload ended
NoOptWatch == [pc |-> "idle", todo |-> {}, cur |-> <<>>, res |-> "none"]

\* what processOptFiles did with a file the last time it had it in hand;
\* at: the folders holding the file when it let go of it
NoOptResult == [upload |-> "none", event |-> "none", wfo |-> "none",
                reported |-> "none", moved |-> "none", at |-> {}]

\* what a scanAndUploadDailySummaries call did with a file
NoRepResult == [row |-> "none", upload |-> "none", moved |-> "none",
                refused |-> FALSE, at |-> {}]

\* NewOptUploadManager, NewDailySummaryUploadManager: nothing started, the
\* channel empty; the folders as the Engine left them are filled by
\* EngineWritesOpt and EngineWritesRep
InitOpt ==
    /\ optFolders = [d \in OptFolderNames |-> {}]
    /\ uploadEventChan = [e \in {"opt_upload", "daily_summary_upload"} |-> 0]
    /\ managers = [k \in {"opt", "dsum"} |-> NoManager]
    /\ optWatch = [w \in 1..MaxOptStarts |-> NoOptWatch]
    /\ scans = [s \in 1..MaxScans |-> NoOptWatch]
    /\ dsum = [w \in 1..MaxOptStarts |-> NoOptWatch]
    /\ optResult = [f \in OptFiles |-> NoOptResult]
    /\ repResult = [r \in RepFiles |-> NoRepResult]
    /\ uploads = 0

\* no DownloadFile call has read a body yet
InitExpand ==
    /\ xmlContent = <<>>
    /\ finalContent = <<>>
    /\ expandPc = "idle"

\* no .opt file checked for walk-forward results yet
NoDetect == [pc |-> "idle", lookup |-> "none", TaskType |-> "", columns |-> {},
             rows |-> 0, isWFO |-> FALSE, triggered |-> FALSE, returned |-> "none"]

\* the Engine has not begun the file; stat1 = -1: no first os.Stat yet
NoFile == [kind |-> "none", size |-> 0, closed |-> FALSE, stat1 |-> -1,
           by |-> "none", read |-> 0, equalSeen |-> FALSE]

\* no DownloadJobs call in progress.  results: the results waiting in the
\* channel, by their Success
NoBatch == [pc |-> "idle", results |-> [ok \in BOOLEAN |-> 0], closed |-> FALSE,
            stats |-> [Total |-> 0, Successful |-> 0, Failed |-> 0]]

\* NewDownloadManager(cfg, api) with cfg.Download.MaxConcurrent = ceiling and
\* cfg.Download.RetryAttempts = budget; no DownloadJobs call yet.  fatal: no
\* download goroutine has panicked ("none"), one has run its deferred calls
\* and the runtime is about to end the process ("pending"), the process has
\* ended ("exited")
NewDownloadManager(ceiling, budget) ==
    [MaxConcurrent |-> ceiling, RetryAttempts |-> budget,
     calls |-> [c \in Calls |-> NoBatch], fatal |-> "none"]

\* no move function called yet
NoMove == [fn |-> "none", hadSource |-> FALSE, hadDest |-> FALSE, o |-> "ok",
           err |-> FALSE, inFrom |-> FALSE, inTo |-> FALSE]

\* no .opt file parsed for the second pass yet
NoRetest ==
    [pc |-> "idle", form |-> "", symbol |-> "", timeframe |-> "", optResults |-> <<>>,
     completed |-> {}, xml |-> <<>>, todo |-> {}]

\* no CompressXMLFile call for the job yet; written: the chunks of the .job
\* on disk
NoPacking == [pc |-> "idle", written |-> 0, closed |-> FALSE]

\* config.go:153-157; Factor 1.5 as a fraction
DefaultExponentialBackoff ==
    [Enabled |-> TRUE, Factor |-> [num |-> 3, den |-> 2], MaxEmptyPolls |-> 3]

\* config.go:159-166
DefaultBurstPolling == [Enabled |-> TRUE, EnableOptTrigger |-> TRUE,
                        EnableSummaryTrigger |-> TRUE]

\* the descriptors an earlier session has left in jobs/to_do: the n newest
\* jobs (nothing empties the folders when the program starts)
Leftovers(n) == {JobFile(j) : j \in (NJobs - n + 1)..NJobs}

\* jobs folders that hold todo in jobs/to_do and nothing else
OnlyToDo(todo) == [s \in Statuses |-> IF s = "to_do" THEN todo ELSE {}]

\* NewGUI with the burst switches cfg and the backoff knobs, found being the
\* files found in the jobs folders: NewPollingOptimizer, nothing started
InitBesidesManager(cfg, knobs, found) ==
    /\ consecutiveEmptyPolls = 0
    /\ currentInterval = GetPollInterval
    /\ totalPolls = 0
    /\ successfulPolls = 0
    /\ burstPollChan = <<>>
    /\ burstCfg = cfg
    /\ files = found
    /\ todoReadable = TRUE
    /\ isPolling = FALSE
    /\ stopCh = 0
    /\ closedCh = {}
    /\ daemons = [d \in 1..MaxStarts |-> NoDaemon]
    /\ gui = NoGui
    /\ handlers = [h \in 1..MaxEvents |-> NoHandler]
    /\ call = NoCall
    /\ feed = NoFeed
    /\ InitWatch
    /\ InitDownloads
    /\ InitOpt
    /\ InitExpand
    /\ backoffCfg = knobs
    /\ packing = [j \in 1..NFolderJobs |-> NoPacking]
    /\ retest = NoRetest
    /\ moveCall = NoMove
    /\ detect = NoDetect
    /\ written = NoFile

InitWithKnobs(cfg, knobs) ==
    /\ InitBesidesManager(cfg, knobs, OnlyToDo({}))
    /\ batch = NewDownloadManager(MaxConcurrent, RetryAttempts)

InitWith(cfg) == InitWithKnobs(cfg, DefaultExponentialBackoff)

Init == InitWith(DefaultBurstPolling)

\* the program started on a jobs/to_do that holds n descriptors
InitLeft(cfg, n) ==
    /\ InitBesidesManager(cfg, DefaultExponentialBackoff, OnlyToDo(Leftovers(n)))
    /\ batch = NewDownloadManager(MaxConcurrent, RetryAttempts)

(***************************************************************************)
(* DownloadManager.DownloadJobs and downloadJob step by step               *)
(* (downloader.go:53-78, 98-195), with APIClient.DownloadFile              *)
(* (api.go:333-447), CheckAndFixXMLFile (downloader.go:502-559) and        *)
(* CompressXMLFile (compression.go:13-42, 78-99).  The files of job j in   *)
(* jobs/to_do are <<j, kind>>: "temp" is {jobId}_temp.xml, "raw" the copy  *)
(* of the fetched text DownloadFile writes as {stem}_temp.xml, "xml"       *)
(* {stem}.xml and "job" {stem}.job.  Goroutine <<c, j>> is the one call c  *)
(* started for job j.                                                      *)
(***************************************************************************)
ToDoOf(j) == {f[2] : f \in {g \in files["to_do"] : g[1] = j}}

WithToDo(fs, j, kinds) ==
    [fs EXCEPT !["to_do"] = {g \in @ : g[1] # j} \cup {<<j, k>> : k \in kinds}]

\* what a DownloadFile call meets: fetch is its end ("http": the request
\* failed, was not 200 or its body could not be read; "create": os.Create of
\* the target failed; "panic": the target was created and the expansion of
\* the text panicked, as processWFOJob does in extractXMLTagValue on a
\* closing tag that comes first (api.go:433, 830); "write": the target was
\* created and could not be written), raw whether the copy of the fetched
\* text was created under another name than the target, text whether the
\* text has empty data streams
FetchOutcomes ==
    [fetch : {"http", "create", "panic", "write", "ok"}, raw : BOOLEAN,
     text : {"clean", "empty"}]

\* what the DownloadFile call of CheckAndFixXMLFile meets (line 553): regen
\* is "failed" (the request failed) or the end of the call past its request,
\* as in FetchOutcomes; raw whether the call could create its copy of the
\* fetched text
FixOutcomes ==
    [regen : {"failed", "create", "panic", "write", "ok"}, raw : BOOLEAN]

\* the end of CompressXMLFile.  "nofile": CompressFile failed before the
\* .job was created; "partial": io.Copy failed; "unflushed": io.Copy
\* returned nil and the deferred writer.Close() or output.Close(), which
\* write the rest of the stream and whose errors are dropped
\* (compression.go:26, 33), failed, so CompressFile returned nil and left a
\* .job cut short; "undeleted" and "unflushed-undeleted": the .xml could not
\* be deleted, after a .job written whole or cut short
CompressOutcomes ==
    {"ok", "nofile", "partial", "unflushed", "undeleted", "unflushed-undeleted"}

\* the .job holds less than the text
CutShort(c) == c \in {"partial", "unflushed", "unflushed-undeleted"}

\* CompressXMLFile returned no error
Compressed(c) == c \in {"ok", "unflushed"}

\* what the disk and the network may answer to the steps of a downloadJob
\* call: any outcome
AnyDisk ==
    [fetches |-> FetchOutcomes, renames |-> BOOLEAN \X BOOLEAN, answers |-> BOOLEAN,
     fixes |-> FixOutcomes, creates |-> BOOLEAN, packs |-> CompressOutcomes \ {"nofile"}]

\* a session in which requests may fail and the copy into the .job may
\* fail, the descriptors have no empty data stream and every other file
\* operation succeeds
SoundDisk ==
    [fetches |-> {o \in FetchOutcomes : o.fetch \in {"http", "ok"} /\ o.raw /\ o.text = "clean"},
     renames |-> {<<TRUE, TRUE>>},
     answers |-> {TRUE},
     fixes |-> {o \in FixOutcomes : o.regen = "ok" /\ o.raw},
     creates |-> {TRUE},
     packs |-> {"ok", "partial"}]

\* a session in which requests may fail and every file operation succeeds
FlakyNet ==
    [fetches |-> {o \in FetchOutcomes : o.fetch \in {"http", "ok"} /\ o.raw /\ o.text = "clean"},
     renames |-> {<<TRUE, TRUE>>},
     answers |-> {TRUE},
     fixes |-> {o \in FixOutcomes : o.regen = "ok" /\ o.raw},
     creates |-> {TRUE},
     packs |-> {"ok"}]

\* a network whose requests may fail and whose descriptors may be ones the
\* expansion panics on, every file operation succeeding
AnyDescriptor ==
    [FlakyNet EXCEPT !.fetches =
        {o \in FetchOutcomes : o.fetch \in {"http", "panic", "ok"} /\ o.raw
                                  /\ o.text = "clean"}]

\* a send on dm.sem that goes through whatever the channel holds
SemNeverFull(n) == TRUE

\* dm.sem <- struct{}{} goes through while the channel holds fewer than
\* Download.MaxConcurrent tokens
SemHasRoom(n) == n < batch.MaxConcurrent

\* a retry loop that makes one more pass than Download.RetryAttempts
InBudgetPlusOne(attempt) == attempt <= batch.RetryAttempts + 1

\* for attempt := 1; attempt <= RetryAttempts; attempt++
InBudget(attempt) == attempt <= batch.RetryAttempts

\* if attempt < RetryAttempts { time.Sleep(GetRetryDelay()); continue }
MayRetry(attempt) == attempt < batch.RetryAttempts

\* the copy of the fetched text DownloadFile writes before it creates its
\* target (api.go:367-392)
RawCopy(o) == IF o.raw THEN {"raw"} ELSE {}

\* the files DownloadFile(job.XMLURL, tempPath) leaves
AfterFetch(kinds, o) ==
    CASE o.fetch = "http" -> kinds
      [] o.fetch = "create" -> kinds \cup RawCopy(o)
      [] OTHER -> kinds \cup {"temp"} \cup RawCopy(o)

\* lines 126-154: the stale {stem}.xml removed, then os.Rename of the temp
\* file, and os.Remove of the temp file when the rename fails
AfterRename(kinds, rename) ==
    IF rename THEN (kinds \ {"temp"}) \cup {"xml"} ELSE kinds \ {"temp", "xml"}

\* the files DownloadFile(targetJob.XMLURL, filePath) leaves: os.Create makes
\* {stem}.xml, or empties the one that is there
AfterFix(kinds, o) ==
    CASE o.regen = "failed" -> kinds
      [] o.regen = "create" -> kinds \cup RawCopy(o)
      [] OTHER -> kinds \cup {"xml"} \cup RawCopy(o)

\* the text {stem}.xml holds after that call
HeldAfterFix(text, o) ==
    CASE o.regen = "ok" -> "regenerated"
      [] o.regen \in {"write", "panic"} -> "truncated"
      [] OTHER -> text

\* the files CompressXMLFile and the os.Remove(finalPath) after its failure
\* leave: the .job is where CompressFile created it or where it was moved
\* to since
AfterCompress(kinds, c) ==
    IF c \in {"undeleted", "unflushed-undeleted"} THEN kinds ELSE kinds \ {"xml"}

\* how a failed pass ends: the delay and continue, or the fall through to
\* attempt++
Again(attempt) == IF MayRetry(attempt) THEN "sleep" ELSE "next"

\* what follows a pass that ended with end ("sleep", "next", "break" or
\* "success"): the delay, the next pass, or the end of the loop with the
\* temp file removed on failure (lines 186-193)
EndPass(g, kinds, t, end) ==
    LET more == end = "next" /\ InBudget(t.attempt + 1)
        failed == end = "break" \/ (end = "next" /\ ~more)
    IN  /\ files' = WithToDo(files, g[2], IF failed THEN kinds \ {"temp"} ELSE kinds)
        /\ tries' = [tries EXCEPT ![g] =
              [t EXCEPT !.pc = CASE end = "sleep" -> "sleep"
                                 [] more -> "try"
                                 [] OTHER -> "done",
                        !.attempt = IF more THEN @ + 1 ELSE @]]

\* the goroutines of call c are gone
Reaped(c) == [g \in Runs |-> IF g[1] = c THEN NoTry ELSE tries[g]]

\* DownloadJobs(jobs) up to the range loop (lines 54-68): an empty list
\* returns at once; otherwise the results channel is made and a goroutine
\* started for each job, which sends on dm.sem first
StartCall(c, jobs) ==
    /\ batch.calls[c].pc = "idle"
    /\ ~Crashed
    /\ batch' = [batch EXCEPT !.calls[c] =
          [NoBatch EXCEPT !.pc = IF jobs = {} THEN "returned" ELSE "collect",
                          !.stats.Total = Cardinality(jobs)]]
    /\ tries' = [g \in Runs |->
                    IF g[1] = c /\ g[2] \in jobs
                    THEN [NoTry EXCEPT !.pc = "waiting"]
                    ELSE Reaped(c)[g]]

\* DownloadJobs(jobs), called on its own
CallDownloadJobs(c, jobs) ==
    /\ StartCall(c, jobs)
    /\ UNCHANGED <<files, sem, goVars>>

\* downloadJob:100-115: the token taken, attempt := 1; under a budget of 0
\* the loop is not entered and the job's temp file, if there is one, is
\* removed (186-193)
AcquireSem(g) ==
    /\ tries[g].pc = "waiting"
    /\ ~Crashed
    /\ SemHasRoom(sem)
    /\ sem' = sem + 1
    /\ tries' = [tries EXCEPT ![g].pc = IF InBudget(1) THEN "try" ELSE "done",
                              ![g].attempt = 1]
    /\ files' = IF InBudget(1) THEN files
                ELSE WithToDo(files, g[2], ToDoOf(g[2]) \ {"temp"})
    /\ UNCHANGED <<batch, goVars>>

\* line 116: DownloadFile(job.XMLURL, tempPath) returns, or panics after it
\* has created its target
FetchToTemp(g, o) ==
    /\ tries[g].pc = "try"
    /\ ~Crashed
    /\ LET t == [tries[g] EXCEPT !.fetches = @ + 1, !.fix = "none"]
           kinds == AfterFetch(ToDoOf(g[2]), o)
       IN  IF o.fetch \in {"ok", "panic"}
           THEN /\ files' = WithToDo(files, g[2], kinds)
                /\ tries' = [tries EXCEPT ![g] =
                                [t EXCEPT !.pc = IF o.fetch = "ok" THEN "fetched"
                                                 ELSE "panic",
                                          !.text = o.text,
                                          !.held = IF o.fetch = "ok" THEN o.text
                                                   ELSE "truncated"]]
           ELSE EndPass(g, kinds,
                        [t EXCEPT !.err = IF o.fetch = "http" THEN "network" ELSE "io"],
                        Again(t.attempt))
    /\ UNCHANGED <<sem, batch, goVars>>

\* lines 126-154: os.ReadFile of the temp file (which fails when another
\* call for the same job has renamed or removed it), the name taken from
\* the text, the rename to {stem}.xml
RenameTemp(g, read, rename) ==
    /\ tries[g].pc = "fetched"
    /\ ~Crashed
    /\ LET canRead == read /\ "temp" \in ToDoOf(g[2])
       IN  IF canRead /\ rename
           THEN /\ files' = WithToDo(files, g[2], AfterRename(ToDoOf(g[2]), TRUE))
                /\ tries' = [tries EXCEPT ![g].pc = "renamed"]
           ELSE EndPass(g, IF canRead THEN AfterRename(ToDoOf(g[2]), FALSE)
                           ELSE ToDoOf(g[2]),
                        [tries[g] EXCEPT !.err = "io"], "break")
    /\ UNCHANGED <<sem, batch, goVars>>

\* how CheckAndFixXMLFile returns to line 160, where its error is only
\* printed: fix is the end it came to
FixReturns(g, t, fix) ==
    /\ tries' = [tries EXCEPT ![g] = [t EXCEPT !.pc = "fixed", !.fix = fix]]

\* CheckAndFixXMLFile:504-522, called at line 160: os.ReadFile of {stem}.xml,
\* which fails on a file that is no longer there, and the search for empty
\* data streams in the text; a text without them ends the call
CheckAndFixXMLFile(g, read) ==
    /\ tries[g].pc = "renamed"
    /\ ~Crashed
    /\ IF ~(read /\ "xml" \in ToDoOf(g[2]))
       THEN FixReturns(g, tries[g], "unread")
       ELSE IF tries[g].text # "empty"
       THEN FixReturns(g, tries[g], "none")
       ELSE tries' = [tries EXCEPT ![g].pc = "regenerate"]
    /\ UNCHANGED <<files, sem, batch, goVars>>

\* CheckAndFixXMLFile:528-530: dm.api.ForceRegenerateXML(jobID)
ForceRegenerateXML(g, ok) ==
    /\ tries[g].pc = "regenerate"
    /\ ~Crashed
    /\ LET t == [tries[g] EXCEPT !.regens = @ + 1]
       IN  IF ok THEN tries' = [tries EXCEPT ![g] = [t EXCEPT !.pc = "repoll"]]
           ELSE FixReturns(g, t, "failed")
    /\ UNCHANGED <<files, sem, batch, goVars>>

\* CheckAndFixXMLFile:534-550: dm.api.PollJobs(1) and the search of the answer for the job
PollRegenerated(g, found) ==
    /\ tries[g].pc = "repoll"
    /\ ~Crashed
    /\ IF found THEN tries' = [tries EXCEPT ![g].pc = "refetch"]
       ELSE FixReturns(g, tries[g], "failed")
    /\ UNCHANGED <<files, sem, batch, goVars>>

\* CheckAndFixXMLFile:553-558: dm.api.DownloadFile(targetJob.XMLURL, filePath), which
\* creates {stem}.xml whether or not it is still there, returns or panics
DownloadRegenerated(g, o) ==
    /\ tries[g].pc = "refetch"
    /\ ~Crashed
    /\ files' = WithToDo(files, g[2], AfterFix(ToDoOf(g[2]), o))
    /\ LET t == [tries[g] EXCEPT !.held = HeldAfterFix(@, o)]
       IN  IF o.regen = "panic"
           THEN tries' = [tries EXCEPT ![g] = [t EXCEPT !.pc = "panic", !.fix = "panic"]]
           ELSE FixReturns(g, t, o.regen)
    /\ UNCHANGED <<sem, batch, goVars>>

\* CompressFile:15-26, called at line 166: the .xml opened and the .job
\* created, empty; when either fails CompressXMLFile returns its error and
\* the pass ends as at lines 166-176
CompressFile(g, made) ==
    /\ tries[g].pc = "fixed"
    /\ ~Crashed
    /\ IF made /\ "xml" \in ToDoOf(g[2])
       THEN /\ files' = WithToDo(files, g[2], ToDoOf(g[2]) \cup {"job"})
            /\ tries' = [tries EXCEPT ![g].pc = "packing"]
       ELSE EndPass(g, AfterCompress(ToDoOf(g[2]), "nofile"),
                    [tries[g] EXCEPT !.err = "compression"], Again(tries[g].attempt))
    /\ UNCHANGED <<sem, batch, goVars>>

\* lines 166-183: CompressXMLFile(finalPath, true) returns after the copy
\* and the deferred closes
CompressXMLFile(g, c) ==
    /\ tries[g].pc = "packing"
    /\ ~Crashed
    /\ LET t == [tries[g] EXCEPT !.packed = IF CutShort(c) THEN "partial"
                                                ELSE tries[g].held]
           kinds == AfterCompress(ToDoOf(g[2]), c)
       IN  IF Compressed(c)
           THEN EndPass(g, kinds, [t EXCEPT !.success = TRUE], "success")
           ELSE EndPass(g, kinds, [t EXCEPT !.err = "compression"], Again(t.attempt))
    /\ UNCHANGED <<sem, batch, goVars>>

\* time.Sleep(GetRetryDelay()); continue
RetryDelayDone(g) ==
    /\ tries[g].pc = "sleep"
    /\ ~Crashed
    /\ tries' = [tries EXCEPT ![g].pc = IF InBudget(tries[g].attempt + 1)
                                        THEN "try" ELSE "done",
                              ![g].attempt = @ + 1,
                              ![g].slept = @ + 1]
    /\ UNCHANGED <<files, sem, batch, goVars>>

\* downloadJob:101, the deferred <-dm.sem, which runs as the call returns
\* and as it panics
ReleaseSem(g) ==
    /\ tries[g].pc \in {"done", "panic"}
    /\ ~Crashed
    /\ sem' = sem - 1
    /\ tries' = [tries EXCEPT ![g].pc = IF tries[g].pc = "done" THEN "returned"
                                        ELSE "unwinding"]
    /\ UNCHANGED <<files, batch, goVars>>

\* line 65: results <- dm.downloadJob(job); the channel has room for every
\* job of the call
SendResult(g) ==
    /\ tries[g].pc = "returned"
    /\ ~Crashed
    /\ batch' = [batch EXCEPT !.calls[g[1]].results[tries[g].success] = @ + 1]
    /\ tries' = [tries EXCEPT ![g].pc = "sent"]
    /\ UNCHANGED <<files, sem, goVars>>

\* line 64: the deferred wg.Done(), which runs after the send of line 65
\* and, with nothing sent, when downloadJob has panicked; it is the last
\* deferred call of the goroutine, after which the runtime ends the process
WgDone(g) ==
    /\ tries[g].pc \in {"sent", "unwinding"}
    /\ ~Crashed
    /\ tries' = [tries EXCEPT ![g].pc = IF tries[g].pc = "sent" THEN "finished"
                                        ELSE "unwound"]
    /\ batch' = IF tries[g].pc = "sent" THEN batch
                ELSE [batch EXCEPT !.fatal = "pending"]
    /\ UNCHANGED <<files, sem, goVars>>

\* the runtime prints the panic of a download goroutine and ends the process
DownloadPanicExits ==
    /\ batch.fatal = "pending"
    /\ batch' = [batch EXCEPT !.fatal = "exited"]
    /\ UNCHANGED <<files, sem, tries, goVars>>

\* go func() { wg.Wait(); close(results) }()
CloseResults(c) ==
    /\ batch.calls[c].pc = "collect" /\ ~batch.calls[c].closed
    /\ ~Crashed
    /\ \A g \in Runs : g[1] = c => tries[g].pc \in {"idle", "finished", "unwound"}
    /\ batch' = [batch EXCEPT !.calls[c].closed = TRUE]
    /\ UNCHANGED <<files, sem, tries, goVars>>

\* if r.Success { stats.Successful++ }
TallySuccesses(stats, ok) ==
    IF ok THEN [stats EXCEPT !.Successful = @ + 1] ELSE stats

\* if r.Success { stats.Successful++ } else { stats.Failed++ }
Tally(stats, ok) ==
    IF ok THEN [stats EXCEPT !.Successful = @ + 1] ELSE [stats EXCEPT !.Failed = @ + 1]

\* for r := range results: one result received and counted
Collect(c, ok) ==
    /\ batch.calls[c].pc = "collect"
    /\ ~Crashed
    /\ batch.calls[c].results[ok] > 0
    /\ batch' = [batch EXCEPT !.calls[c].results[ok] = @ - 1,
                              !.calls[c].stats = Tally(@, ok)]
    /\ UNCHANGED <<files, sem, tries, goVars>>

\* the range loop ends on the closed, drained channel; stats returned
ReturnStats(c) ==
    /\ batch.calls[c].pc = "collect"
    /\ ~Crashed
    /\ batch.calls[c].closed
    /\ \A ok \in BOOLEAN : batch.calls[c].results[ok] = 0
    /\ batch' = [batch EXCEPT !.calls[c].pc = "returned"]
    /\ UNCHANGED <<files, sem, tries, goVars>>

\* the caller has the statistics and may call again
NextBatch(c) ==
    /\ batch.calls[c].pc = "returned"
    /\ ~Crashed
    /\ batch' = [batch EXCEPT !.calls[c].pc = "idle"]
    /\ tries' = Reaped(c)
    /\ UNCHANGED <<files, sem, goVars>>

\* one step of CheckAndFixXMLFile past its read, which only a text with
\* empty data streams comes to
RegenerateStep(g, disk) ==
    \/ \E ok \in disk.answers : ForceRegenerateXML(g, ok)
    \/ \E found \in disk.answers : PollRegenerated(g, found)
    \/ \E o \in disk.fixes : DownloadRegenerated(g, o)

\* any other step of the downloadJob goroutine g on a disk and a network
\* that answer within disk
RunStep(g, disk) ==
    \/ AcquireSem(g)
    \/ \E o \in disk.fetches : FetchToTemp(g, o)
    \/ \E r \in disk.renames : RenameTemp(g, r[1], r[2])
    \/ \E read \in disk.answers : CheckAndFixXMLFile(g, read)
    \/ \E made \in disk.creates : CompressFile(g, made)
    \/ \E c \in disk.packs : CompressXMLFile(g, c)
    \/ RetryDelayDone(g)
    \/ ReleaseSem(g)
    \/ SendResult(g)
    \/ WgDone(g)

\* one step of DownloadJobs past the go statements, or of its closer
CallStep(c) ==
    \/ CloseResults(c)
    \/ \E ok \in BOOLEAN : Collect(c, ok)
    \/ ReturnStats(c)

\* the goroutines past the semaphore
Executing ==
    {g \in Runs : tries[g].pc \notin {"idle", "waiting", "returned", "sent", "finished",
                                       "unwinding", "unwound"}}

(***************************************************************************)
(* The scheduler driven directly through its operations, on a jobs/to_do   *)
(* that holds what earlier sessions left and that the engine empties.      *)
(***************************************************************************)
InitSched == \E n \in 0..(RemainingJobsThreshold + 1) : InitLeft(DefaultBurstPolling, n)

NextSched ==
    \/ \E jobCount \in {0, 2} : UpdateMetrics(jobCount)
    \/ \E hasJobs \in BOOLEAN, remaining \in {0, RemainingJobsThreshold + 1} :
           CalculateOptimalInterval(hasJobs, remaining)
    \/ EngineFree /\ EngineTakes
    \/ \E b \in BOOLEAN : SetTodoReadable(b)

SpecSched == InitSched /\ [][NextSched]_vars

(***************************************************************************)
(* The folders alone: DownloadJobs calls on any jobs (a job the cloud      *)
(* serves again with redownload set included) and any move.                *)
(***************************************************************************)
NextFolders ==
    \/ \E jobs \in SUBSET (1..NFolderJobs) : CallDownloadJobs(1, jobs)
    \/ \E j \in 1..NFolderJobs : RunStep(<<1, j>>, FlakyNet)
    \/ CallStep(1)
    \/ NextBatch(1)
    \/ \E j \in 1..NFolderJobs, from \in Statuses, to \in Statuses :
           MoveJobFile(j, from, to)

SpecFolders == Init /\ [][NextFolders]_vars

(***************************************************************************)
(* The burst trigger: polling.go:174-223.                                  *)
(***************************************************************************)
EventTypes == {"opt_upload", "daily_summary_upload"}

\* the two early returns of HandleUploadEvent on the event's class
ClassEnabled(cfg, eventType) ==
    /\ ~(eventType = "opt_upload" /\ ~cfg.EnableOptTrigger)
    /\ ~(eventType = "daily_summary_upload" /\ ~cfg.EnableSummaryTrigger)

\* a send that never waits although the channel is full
SendUnbounded(ch) == Append(ch, TRUE)

\* select { case burstPollChan <- true: ... default: ... }
TrySend(ch) == IF Len(ch) < BurstChanCap THEN Append(ch, TRUE) ELSE ch

\* the threshold test made on a strictly smaller count
BurstWantedBelow(jc) == ~jc.err /\ jc.count < JobThreshold

\* polling.go:194-200: the count read without error and within the threshold
BurstWanted(jc) == ~jc.err /\ jc.count <= JobThreshold

\* HandleUploadEvent(event) up to time.Sleep(WaitAfterUpload): the handler
\* returns at once when bursting or the event's class is switched off
HandleUploadEvent(eventType) ==
    [NoHandler EXCEPT !.eventType = eventType,
                      !.pc = IF burstCfg.Enabled /\ ClassEnabled(burstCfg, eventType)
                             THEN "sleeping" ELSE "done"]

\* HandleUploadEvent after the sleep: count the backlog, triggerBurstPoll
InspectBacklog(h) ==
    /\ handlers[h].pc = "sleeping"
    /\ ~Crashed
    /\ LET jc == countJobsInNewFolder
       IN  /\ handlers' = [handlers EXCEPT ![h].pc = "done", ![h].backlog = Backlog,
                                           ![h].count = jc.count, ![h].err = jc.err,
                                           ![h].signaled = BurstWanted(jc)]
           /\ burstPollChan' = IF BurstWanted(jc) THEN TrySend(burstPollChan)
                               ELSE burstPollChan
    /\ UNCHANGED <<restVars, burstCfg, schedVars, histVars, fsVars, guiVars>>

(***************************************************************************)
(* The control loop: downloader.go:840-971.                                *)
(***************************************************************************)
\* g.isPolling and g.stopCh are written by the GUI handlers and read by the
\* loops with no synchronisation: a read may return the current value or one
\* written earlier in the reading loop's life.  Loop d was started with
\* isPolling = true and stop channel d.
PollingReads(d) == {isPolling, TRUE} \cup (IF stopCh > d THEN {FALSE} ELSE {})

StopChReads(d) == d..stopCh

\* GUI.onStartDaemon, run on the GUI's event goroutine like the other
\* handlers: the loop and the two start goroutines launched
onStartDaemon ==
    /\ gui.pc = "idle"
    /\ ~Crashed
    /\ ~isPolling
    /\ stopCh < MaxStarts
    /\ isPolling' = TRUE
    /\ stopCh' = stopCh + 1
    /\ daemons' = [daemons EXCEPT ![stopCh + 1] =
                       [NoDaemon EXCEPT !.pc = "loop", !.ch = stopCh + 1]]
    /\ gui' = [gui EXCEPT !.csv = @ + 1, !.opt = @ + 1]
    /\ UNCHANGED <<restVars, closedCh, schedVars, histVars, fsVars, burstVars>>

\* go g.startCSVMonitoring(): CSVUploadManager.Start under its mutex, which
\* returns an error when the manager is running
startCSVMonitoring ==
    /\ gui.csv > 0
    /\ ~Crashed
    /\ isRunning \/ watchStopCh < MaxWatchStarts
    /\ gui' = [gui EXCEPT !.csv = @ - 1]
    /\ isRunning' = TRUE
    /\ watchStopCh' = IF isRunning THEN watchStopCh ELSE watchStopCh + 1
    /\ monitors' = IF isRunning THEN monitors
                   ELSE [monitors EXCEPT ![watchStopCh + 1].pc = "select"]
    /\ UNCHANGED <<watchClosed, dlVars, optVars, expandVars, knobVars, packVars, retestVars,
                   lateVars, isPolling, stopCh, closedCh, daemons, schedVars, histVars,
                   fsVars, burstVars>>

\* Start: isRunning set and a new stop channel made
Started(m) == [m EXCEPT !.isRunning = TRUE, !.stopCh = @ + 1]

\* go g.startOptMonitoring(): OptUploadManager.Start under its mutex
startOptMonitoring ==
    /\ gui.opt > 0
    /\ ~Crashed
    /\ managers["opt"].isRunning \/ managers["opt"].stopCh < MaxOptStarts
    /\ gui' = [gui EXCEPT !.opt = @ - 1]
    /\ managers' = IF managers["opt"].isRunning THEN managers
                   ELSE [managers EXCEPT !["opt"] = Started(@)]
    /\ optWatch' = IF managers["opt"].isRunning THEN optWatch
                   ELSE [optWatch EXCEPT ![managers["opt"].stopCh + 1].pc = "select"]
    /\ UNCHANGED <<optFolders, uploadEventChan, scans, dsum, optResult, repResult, uploads,
                   watchVars, dlVars, expandVars, knobVars, packVars, retestVars, lateVars,
                   isPolling, stopCh, closedCh, daemons, schedVars, histVars, fsVars,
                   burstVars>>

\* CSVUploadManager.Stop, OptUploadManager.Stop and
\* DailySummaryUploadManager.Stop: a manager that is not running is left as
\* it is, the stop channel of a running one is closed
Stopped(m) ==
    IF m.isRunning
    THEN [m EXCEPT !.isRunning = FALSE, !.closed = @ \cup {m.stopCh}]
    ELSE m

\* GUI.onStopDaemon:865-868: g.isPolling = false
onStopDaemon ==
    /\ gui.pc = "idle"
    /\ ~Crashed
    /\ isPolling
    /\ isPolling' = FALSE
    /\ gui' = [gui EXCEPT !.pc = "close"]
    /\ UNCHANGED <<restVars, stopCh, closedCh, daemons, schedVars, histVars, fsVars, burstVars>>

\* GUI.onStopDaemon:869: close(g.stopCh)
CloseStopCh ==
    /\ gui.pc = "close"
    /\ ~Crashed
    /\ closedCh' = closedCh \cup {stopCh}
    /\ gui' = [gui EXCEPT !.pc = "csv"]
    /\ UNCHANGED <<restVars, isPolling, stopCh, daemons, schedVars, histVars, fsVars, burstVars>>

\* GUI.onStopDaemon:874: g.csvUploader.Stop(), under the manager's mutex
StopCSVUploader ==
    /\ gui.pc = "csv"
    /\ ~Crashed
    /\ isRunning' = FALSE
    /\ watchClosed' = IF isRunning THEN watchClosed \cup {watchStopCh} ELSE watchClosed
    /\ gui' = [gui EXCEPT !.pc = "opt"]
    /\ UNCHANGED <<watchStopCh, monitors, dlVars, optVars, expandVars, knobVars, packVars,
                   retestVars, lateVars, isPolling, stopCh, closedCh, daemons, schedVars,
                   histVars, fsVars, burstVars>>

\* GUI.onStopDaemon:876: g.optUploader.Stop(), under the manager's mutex
StopOptUploader ==
    /\ gui.pc = "opt"
    /\ ~Crashed
    /\ managers' = [managers EXCEPT !["opt"] = Stopped(@)]
    /\ gui' = [gui EXCEPT !.pc = "dsum"]
    /\ UNCHANGED <<optFolders, uploadEventChan, optWatch, scans, dsum, optResult, repResult,
                   uploads, watchVars, dlVars, expandVars, knobVars, packVars, retestVars,
                   lateVars, isPolling, stopCh, closedCh, daemons, schedVars, histVars,
                   fsVars, burstVars>>

\* GUI.onStopDaemon:878: g.dailySummaryUploader.Stop(), and the handler
\* returns
StopDailySummaryUploader ==
    /\ gui.pc = "dsum"
    /\ ~Crashed
    /\ managers' = [managers EXCEPT !["dsum"] = Stopped(@)]
    /\ gui' = [gui EXCEPT !.pc = "idle"]
    /\ UNCHANGED <<optFolders, uploadEventChan, optWatch, scans, dsum, optResult, repResult,
                   uploads, watchVars, dlVars, expandVars, knobVars, packVars, retestVars,
                   lateVars, isPolling, stopCh, closedCh, daemons, schedVars, histVars,
                   fsVars, burstVars>>

\* GUI.onLogout
onLogout ==
    /\ gui.pc = "idle"
    /\ ~Crashed
    /\ isPolling
    /\ isPolling' = FALSE
    /\ UNCHANGED <<restVars, stopCh, closedCh, daemons, gui, schedVars, histVars, fsVars, burstVars>>

\* runDaemon:910-915, the loop condition and the first select
DaemonLoop(d) ==
    /\ daemons[d].pc = "loop"
    /\ ~Crashed
    /\ \E p \in PollingReads(d), c \in StopChReads(d) :
           daemons' = [daemons EXCEPT ![d].pc =
                           IF ~p \/ c \in closedCh THEN "exited" ELSE "poll"]
    /\ UNCHANGED <<restVars, isPolling, stopCh, closedCh, gui, schedVars, histVars, fsVars, burstVars>>

\* runDaemon:918-935: EnsureValidToken, PollJobs, remaining; the response
\* holds at most limit jobs, and never more than Poll.Limit
DaemonPoll(d, limit, cloud) ==
    /\ daemons[d].pc = "poll"
    /\ ~Crashed
    /\ \/ daemons' = [daemons EXCEPT ![d].pc = "backoff"]
       \/ /\ totalPolls < MaxPolls
          /\ \E jobs \in PollResponses(limit, cloud) :
               daemons' = [daemons EXCEPT
                   ![d].count = Cardinality(jobs),
                   ![d].jobs = jobs,
                   ![d].remaining = IF jobs # {}
                                    THEN IF @ - Cardinality(jobs) > 0
                                         THEN @ - Cardinality(jobs) ELSE 0
                                    ELSE 0,
                   ![d].pc = IF jobs # {} THEN "download" ELSE "metrics"]
    /\ UNCHANGED <<restVars, isPolling, stopCh, closedCh, gui, schedVars, histVars, fsVars, burstVars>>

\* time.Sleep(30 * time.Second) after a failed token refresh or poll
BackoffDone(d) ==
    /\ daemons[d].pc = "backoff"
    /\ ~Crashed
    /\ daemons' = [daemons EXCEPT ![d].pc = "loop"]
    /\ UNCHANGED <<restVars, isPolling, stopCh, closedCh, gui, schedVars, histVars, fsVars, burstVars>>

\* runDaemon:938: DownloadJobs(resp.Jobs) is called and starts its
\* goroutines
DaemonDownload(d) ==
    /\ daemons[d].pc = "download"
    /\ ~Crashed
    /\ StartCall(d, daemons[d].jobs)
    /\ daemons' = [daemons EXCEPT ![d].pc = "downloading"]
    /\ UNCHANGED <<files, sem, todoReadable, schedVars, histVars, burstVars, isPolling,
                   stopCh, closedCh, gui, watchVars, optVars, expandVars, knobVars, packVars,
                   retestVars, moveCall, detect, written>>

\* runDaemon:938-940: DownloadJobs has returned its statistics
DaemonDownloaded(d) ==
    /\ daemons[d].pc = "downloading"
    /\ ~Crashed
    /\ batch.calls[d].pc = "returned"
    /\ batch' = [batch EXCEPT !.calls[d].pc = "idle"]
    /\ tries' = Reaped(d)
    /\ daemons' = [daemons EXCEPT ![d].pc = "metrics", ![d].jobs = {}]
    /\ UNCHANGED <<files, sem, todoReadable, schedVars, histVars, burstVars, isPolling,
                   stopCh, closedCh, gui, watchVars, optVars, expandVars, knobVars, packVars,
                   retestVars, moveCall, detect, written>>

\* runDaemon:942, UpdateMetrics: the fields are read.  The optimizer has no
\* lock, and a loop started earlier may be in the same function
DaemonMetricsRead(d) ==
    /\ daemons[d].pc = "metrics"
    /\ ~Crashed
    /\ daemons' = [daemons EXCEPT
           ![d].pc = "count",
           ![d].seen = [NoSeen EXCEPT !.total = totalPolls,
                                      !.successful = successfulPolls,
                                      !.empties = consecutiveEmptyPolls]]
    /\ UNCHANGED <<restVars, isPolling, stopCh, closedCh, gui, schedVars, histVars, fsVars, burstVars>>

\* UpdateMetrics: the increments stored, each on the value read at its own
\* time: the one seen first or the one the field holds now
DaemonMetrics(d) ==
    /\ daemons[d].pc = "count"
    /\ ~Crashed
    /\ \E total \in {daemons[d].seen.total, totalPolls},
          successful \in {daemons[d].seen.successful, successfulPolls},
          empties \in {daemons[d].seen.empties, consecutiveEmptyPolls} :
           StoreMetrics(daemons[d].count, total, successful, empties)
    /\ daemons' = [daemons EXCEPT ![d].pc = "calc", ![d].seen = NoSeen]
    /\ UNCHANGED <<restVars, isPolling, stopCh, closedCh, gui, feed, fsVars, burstVars>>

\* runDaemon:943, CalculateOptimalInterval: jobs/to_do counted and the
\* fields read
DaemonCalcRead(d) ==
    /\ daemons[d].pc = "calc"
    /\ ~Crashed
    /\ daemons' = [daemons EXCEPT
           ![d].pc = "decide",
           ![d].seen = [NoSeen EXCEPT !.jc = countJobsInNewFolder,
                                      !.backlog = Backlog,
                                      !.empties = consecutiveEmptyPolls,
                                      !.cur = currentInterval]]
    /\ UNCHANGED <<restVars, isPolling, stopCh, closedCh, gui, schedVars, histVars, fsVars, burstVars>>

\* CalculateOptimalInterval: the decision, each field at the value seen
\* first or the one it holds now, and po.currentInterval stored
DaemonCalc(d) ==
    /\ daemons[d].pc = "decide"
    /\ ~Crashed
    /\ \E empties \in {daemons[d].seen.empties, consecutiveEmptyPolls},
          cur \in {daemons[d].seen.cur, currentInterval} :
           StoreInterval(daemons[d].count > 0, daemons[d].remaining,
                         daemons[d].seen.jc, daemons[d].seen.backlog, empties, cur)
    /\ daemons' = [daemons EXCEPT ![d].next = call'.ret,
                                  ![d].seen = NoSeen,
                                  ![d].pc = "select"]
    /\ UNCHANGED <<restVars, isPolling, stopCh, closedCh, gui, feed, fsVars, burstVars>>

\* runDaemon:949-962: the select the decision leads to is entered, g.stopCh
\* read there
DaemonSelect(d) ==
    /\ daemons[d].pc = "select"
    /\ ~Crashed
    /\ \E c \in StopChReads(d) :
           daemons' = [daemons EXCEPT ![d].ch = c,
                                      ![d].pc = IF daemons[d].next = Zero
                                                THEN "suspend" ELSE "wait"]
    /\ UNCHANGED <<restVars, isPolling, stopCh, closedCh, gui, schedVars, histVars, fsVars, burstVars>>

\* runDaemon:951-957: select on stopCh and time.After(30 s)
SuspendStop(d) ==
    /\ daemons[d].pc = "suspend"
    /\ ~Crashed
    /\ daemons[d].ch \in closedCh
    /\ daemons' = [daemons EXCEPT ![d].pc = "exited"]
    /\ UNCHANGED <<restVars, isPolling, stopCh, closedCh, gui, schedVars, histVars, fsVars, burstVars>>

SuspendTimeout(d) ==
    /\ daemons[d].pc = "suspend"
    /\ ~Crashed
    /\ daemons' = [daemons EXCEPT ![d].pc = "loop"]
    /\ UNCHANGED <<restVars, isPolling, stopCh, closedCh, gui, schedVars, histVars, fsVars, burstVars>>

\* runDaemon:961-969: select on time.After(next), stopCh and the burst channel
WaitTimeout(d) ==
    /\ daemons[d].pc = "wait"
    /\ ~Crashed
    /\ daemons' = [daemons EXCEPT ![d].pc = "loop"]
    /\ UNCHANGED <<restVars, isPolling, stopCh, closedCh, gui, schedVars, histVars, fsVars, burstVars>>

WaitStop(d) ==
    /\ daemons[d].pc = "wait"
    /\ ~Crashed
    /\ daemons[d].ch \in closedCh
    /\ daemons' = [daemons EXCEPT ![d].pc = "exited"]
    /\ UNCHANGED <<restVars, isPolling, stopCh, closedCh, gui, schedVars, histVars, fsVars, burstVars>>

\* the burst channel listened to in the suspend probe wait instead
WaitBurstWhenSuspended(d) ==
    /\ daemons[d].pc = "suspend"
    /\ ~Crashed
    /\ burstPollChan # <<>>
    /\ burstPollChan' = Tail(burstPollChan)
    /\ daemons' = [daemons EXCEPT ![d].pc = "loop"]
    /\ UNCHANGED <<restVars, burstCfg, handlers, isPolling, stopCh, closedCh, gui, schedVars,
                   histVars, fsVars>>

WaitBurst(d) ==
    /\ daemons[d].pc = "wait"
    /\ ~Crashed
    /\ burstPollChan # <<>>
    /\ burstPollChan' = Tail(burstPollChan)
    /\ daemons' = [daemons EXCEPT ![d].pc = "loop"]
    /\ UNCHANGED <<restVars, burstCfg, handlers, isPolling, stopCh, closedCh, gui, schedVars,
                   histVars, fsVars>>

\* one step of runDaemon(limit)
DaemonStep(d, limit, cloud) ==
    \/ DaemonLoop(d)
    \/ DaemonPoll(d, limit, cloud)
    \/ BackoffDone(d)
    \/ DaemonDownload(d)
    \/ DaemonDownloaded(d)
    \/ DaemonMetricsRead(d)
    \/ DaemonMetrics(d)
    \/ DaemonCalcRead(d)
    \/ DaemonCalc(d)
    \/ DaemonSelect(d)
    \/ SuspendTimeout(d)
    \/ WaitTimeout(d)

\* one step of the stop handler past its first, or of a start goroutine
SessionStep ==
    \/ CloseStopCh
    \/ StopCSVUploader
    \/ StopOptUploader
    \/ StopDailySummaryUploader
    \/ startCSVMonitoring
    \/ startOptMonitoring

\* the program started on a jobs/to_do that is empty or holds as many
\* descriptors as the scheduler tolerates
InitSession ==
    \E n \in {0, RemainingJobsThreshold} : InitLeft(DefaultBurstPolling, n)

(***************************************************************************)
(* The control loop started once, its downloads and the engine, with no    *)
(* upload event, stopped at any moment.                                    *)
(***************************************************************************)
NextLoop ==
    \/ stopCh = 0 /\ onStartDaemon
    \/ onStopDaemon
    \/ onLogout
    \/ SessionStep
    \/ \E d \in 1..MaxStarts :
           DaemonStep(d, MaxBatch, 1..NCloudJobs) \/ SuspendStop(d) \/ WaitStop(d)
    \/ \E g \in Runs : RunStep(g, SoundDisk)
    \/ \E c \in Calls : CallStep(c)
    \/ EngineTakes

SpecLoop == InitSession /\ [][NextLoop]_vars

(***************************************************************************)
(* Properties of the scheduler.                                            *)
(***************************************************************************)
\* C1 as stated: whenever jobs/to_do holds more than remainingJobsThreshold
\* .job files, CalculateOptimalInterval returns the suspend sentinel (0),
\* whether or not the folder could be read.
C1_SuspendWhateverTheRead ==
    (call.n > 0 /\ call.backlog > RemainingJobsThreshold) => call.ret = Zero

\* C1 amended: whenever jobs/to_do could be read and holds more than
\* remainingJobsThreshold .job files, CalculateOptimalInterval returns the
\* suspend sentinel (0), whatever hasJobs, remaining, the count of empty
\* polls and the current interval are.
C1_SuspendWhenBacklogRead ==
    (call.n > 0 /\ ~call.err /\ call.backlog > RemainingJobsThreshold)
        => call.ret = Zero

\* a call with jobs returned and three empty polls counted, suspended by a
\* readable backlog of more than three
C1_Witness ==
    /\ call.n > 0 /\ ~call.err /\ call.backlog > RemainingJobsThreshold
    /\ call.hasJobs
    /\ consecutiveEmptyPolls >= EmptyPollLimit
    /\ call.ret = Zero

\* the results of the current run of empty polls that are intervals (the
\* suspend sentinel is no interval)
IsInterval(d) == d # Zero

\* C4: in a run of consecutive empty polls (UpdateMetrics(0) followed by
\* CalculateOptimalInterval(false, ...)), the intervals chosen never decrease
\* and never exceed maxInterval.
C4_MonotoneIdle ==
    \A i \in 1..Len(feed.out) : \A j \in i..Len(feed.out) :
        (IsInterval(feed.out[i]) /\ IsInterval(feed.out[j]))
            => /\ DurLeq(feed.out[i], feed.out[j])
               /\ DurLeq(feed.out[j], GetMaxPollInterval)

\* a run of four empty polls: the interval grows, the third decision is
\* suspended by the backlog, the fourth is maxInterval
C4_Witness ==
    /\ Len(feed.out) = 4
    /\ IsInterval(feed.out[1])
    /\ DurLess(feed.out[1], feed.out[2])
    /\ feed.out[3] = Zero
    /\ feed.out[4] = GetMaxPollInterval

\* a run of empty polls fed to a scheduler whose current interval is
\* minInterval and which has counted no empty poll, none of the first k
\* decisions suspended
FedFromMin(k) ==
    /\ feed.start = [cur |-> GetMinPollInterval, empties |-> 0]
    /\ Len(feed.out) >= k
    /\ \A i \in 1..k : IsInterval(feed.out[i])

\* C6 as stated: from minInterval, four consecutive empty polls yield
\* min x 1.2, min x 1.44, min x 1.728 and then maxInterval.
C6_FourthPollSwitches ==
    FedFromMin(4) =>
        feed.out = << Millis((MinInterval * 12) \div 10),
                      Millis((MinInterval * 144) \div 100),
                      Millis((MinInterval * 1728) \div 1000),
                      GetMaxPollInterval >>

\* C6 amended: from minInterval, consecutive empty polls yield min x 1.2,
\* min x 1.44 and then maxInterval from the third empty poll on (the
\* empty-poll threshold is reached at the third poll).
C6_ThirdPollSwitches ==
    \A k \in 1..Len(feed.out) :
        FedFromMin(k) =>
            feed.out[k] = CASE k = 1 -> Millis((MinInterval * 12) \div 10)
                            [] k = 2 -> Millis((MinInterval * 144) \div 100)
                            [] OTHER -> GetMaxPollInterval

C6_Witness == FedFromMin(4)

(***************************************************************************)
(* Properties of the control loop, the folders and the burst trigger.      *)
(***************************************************************************)
\* C2 as stated: once the scheduler has returned the suspend sentinel, and
\* for as long as jobs/to_do holds more than remainingJobsThreshold .job
\* files, no step of the agent places a new descriptor in jobs/to_do.
C2_NoDeepeningWhileSuspended ==
    [][(call.n > 0 /\ call.ret = Zero /\ Backlog > RemainingJobsThreshold)
          => \A j \in JobIds :
                 JobFile(j) \in files'["to_do"] => JobFile(j) \in files["to_do"]]_vars

\* C3 as stated: after any sequence of downloads, redownloads and moves, no
\* descriptor is in more than one of to_do, in_progress, done, error.
C3_OneFolder ==
    \A j \in JobIds : Cardinality({s \in Statuses : JobFile(j) \in files[s]}) <= 1

\* C5: whenever the control loop asks the scheduler after a poll that
\* returned jobs, and jobs/to_do holds at most remainingJobsThreshold .job
\* files, the interval chosen is minInterval, whatever the current interval.
C5_HotCadence ==
    (call.n > 0 /\ call.hasJobs /\ call.backlog <= RemainingJobsThreshold)
        => call.ret = GetMinPollInterval

\* the hot cadence chosen after an empty poll had lengthened the interval
C5_Witness ==
    /\ call.n > 0 /\ call.hasJobs /\ call.backlog <= RemainingJobsThreshold
    /\ DurLess(GetMinPollInterval, currentInterval)
    /\ call.ret = GetMinPollInterval

\* C7 as stated: a handled upload event has signaled a burst if and only if
\* bursting is enabled, the event's class is enabled, and jobs/to_do held at
\* most burstThreshold .job files when it was inspected.
C7_SignalIffSmallBacklog ==
    \A h \in 1..MaxEvents :
        handlers[h].pc = "done" =>
            (handlers[h].signaled <=>
                /\ burstCfg.Enabled
                /\ ClassEnabled(burstCfg, handlers[h].eventType)
                /\ handlers[h].backlog <= JobThreshold)

\* C7 amended: a handled upload event has signaled a burst if and only if
\* bursting is enabled, the event's class is enabled, jobs/to_do could be
\* read after the wait, and it held at most burstThreshold .job files.
C7_SignalIffSmallBacklogRead ==
    \A h \in 1..MaxEvents :
        handlers[h].pc = "done" =>
            (handlers[h].signaled <=>
                /\ burstCfg.Enabled
                /\ ClassEnabled(burstCfg, handlers[h].eventType)
                /\ ~handlers[h].err
                /\ handlers[h].backlog <= JobThreshold)

\* an event that signaled on a backlog of exactly burstThreshold, another
\* that found the folder unreadable and did not signal
C7_Witness ==
    \E h, g \in 1..MaxEvents :
        /\ handlers[h].pc = "done" /\ handlers[h].signaled
        /\ handlers[h].backlog = JobThreshold
        /\ handlers[g].pc = "done" /\ handlers[g].err /\ ~handlers[g].signaled

\* C8: at most one burst is pending at any time, and a handler that has
\* finished its wait can always take its step (the signal never blocks it).
C8_OnePendingNeverBlocks ==
    /\ Len(burstPollChan) <= BurstChanCap
    /\ \A h \in 1..MaxEvents :
           handlers[h].pc = "sleeping" => ENABLED InspectBacklog(h)

\* two handlers have signaled, nothing was consumed, one burst is pending
C8_Witness ==
    /\ \A h \in 1..MaxEvents : handlers[h].pc = "done" /\ handlers[h].signaled
    /\ Len(burstPollChan) = 1

\* C9 as stated: in every wait of the control loop between two polls, a
\* pending burst can end the wait, whichever decision produced the wait.
C9_EveryWaitHearsBurst ==
    \A d \in 1..MaxStarts :
        (daemons[d].pc \in {"wait", "suspend"} /\ burstPollChan # <<>>)
            => ENABLED WaitBurst(d)

\* the loop is about to call PollJobs, or has returned on the stop
Polls(d) == daemons[d].pc \in {"poll", "exited"}

\* a handler of an upload event of an enabled class is in its
\* burstDelayAfterUpload sleep while the loop waits on an interval longer
\* than the minimum, jobs/to_do readable and holding no more than
\* jobThreshold descriptors
EventDuringLongWait(d, h) ==
    /\ handlers[h].pc = "sleeping"
    /\ daemons[d].pc = "wait"
    /\ DurLess(GetMinPollInterval, daemons[d].next)
    /\ todoReadable
    /\ Backlog <= JobThreshold

\* C9 amended: a burst leaves the burst channel only through the wait on an
\* interval returned by the scheduler, whose loop then goes on to its next
\* iteration (so a burst signaled during the suspend probe wait or the
\* back-off sleep stays pending); the next iteration starts with a poll
\* unless the loop returns on the stop; a burst pending during an interval
\* wait leads to that poll without the timer; and so does an upload event
\* handled during a long interval wait with a small backlog.
C9_IntervalWaitHearsBurst ==
    /\ [][Len(burstPollChan') < Len(burstPollChan)
            => \E d \in 1..MaxStarts :
                  daemons[d].pc = "wait" /\ daemons'[d].pc = "loop"]_vars
    /\ [][\A d \in 1..MaxStarts :
            (daemons[d].pc = "loop" /\ daemons'[d].pc # "loop") => Polls(d)']_vars
    /\ \A d \in 1..MaxStarts :
          (daemons[d].pc = "wait" /\ burstPollChan # <<>>) ~> Polls(d)
    /\ \A d \in 1..MaxStarts, h \in 1..SessionEvents :
          EventDuringLongWait(d, h) ~> Polls(d)

\* the burst of an upload handler is pending while the loop waits on an
\* interval longer than the minimum, its stop channel open
C9_Witness ==
    \E d \in 1..MaxStarts, h \in 1..SessionEvents :
        /\ daemons[d].pc = "wait"
        /\ DurLess(GetMinPollInterval, daemons[d].next)
        /\ handlers[h].signaled
        /\ burstPollChan # <<>>
        /\ daemons[d].ch \notin closedCh

\* C10 as stated: a control loop whose stop channel has been closed starts
\* no other poll.
C10_NoPollAfterStop ==
    [][\A d \in 1..MaxStarts :
          d \in closedCh => ~(daemons[d].pc # "poll" /\ daemons'[d].pc = "poll")]_vars

(***************************************************************************)
(* A watcher: CSVUploadManager (csv_uploader.go:27-104).  OptUploadManager *)
(* (231-275) and DailySummaryUploadManager (1042-1087) have the same       *)
(* Start, Stop and monitor loop.                                           *)
(***************************************************************************)
\* cum.stopCh is written by Start under the mutex and read by the monitor
\* loops without it: a read returns the channel the loop was started with
\* or one made by a later Start.  Loop m was started with channel m.
WatchStopChReads(m) == m..watchStopCh

\* CSVUploadManager.Start
Start ==
    /\ ~isRunning
    /\ ~Crashed
    /\ watchStopCh < MaxWatchStarts
    /\ isRunning' = TRUE
    /\ watchStopCh' = watchStopCh + 1
    /\ monitors' = [monitors EXCEPT ![watchStopCh + 1].pc = "select"]
    /\ UNCHANGED <<watchClosed, nonWatchVars>>

\* CSVUploadManager.Stop
Stop ==
    /\ isRunning
    /\ ~Crashed
    /\ isRunning' = FALSE
    /\ watchClosed' = watchClosed \cup {watchStopCh}
    /\ UNCHANGED <<watchStopCh, monitors, nonWatchVars>>

\* the loop's ticker (10 s) delivers a tick; ticker.C holds one tick at most
Tick(m) ==
    /\ monitors[m].pc \in {"select", "scan"}
    /\ ~Crashed
    /\ ~monitors[m].tick
    /\ monitors' = [monitors EXCEPT ![m].tick = TRUE]
    /\ UNCHANGED <<isRunning, watchStopCh, watchClosed, nonWatchVars>>

\* monitorFolder: select { case <-cum.stopCh: return; case <-ticker.C: scan };
\* when both cases are ready the runtime picks either
monitorFolder(m) ==
    /\ monitors[m].pc = "select"
    /\ ~Crashed
    /\ \/ /\ \E c \in WatchStopChReads(m) : c \in watchClosed
          /\ monitors' = [monitors EXCEPT ![m] = [pc |-> "exited", tick |-> FALSE]]
       \/ /\ monitors[m].tick
          /\ monitors' = [monitors EXCEPT ![m] = [pc |-> "scan", tick |-> FALSE]]
    /\ UNCHANGED <<isRunning, watchStopCh, watchClosed, nonWatchVars>>

\* processCSVFiles returns and the loop selects again
processCSVFiles(m) ==
    /\ monitors[m].pc = "scan"
    /\ ~Crashed
    /\ monitors' = [monitors EXCEPT ![m].pc = "select"]
    /\ UNCHANGED <<isRunning, watchStopCh, watchClosed, nonWatchVars>>

NextWatch ==
    \/ Start
    \/ Stop
    \/ \E m \in 1..MaxWatchStarts : Tick(m)
    \/ \E m \in 1..MaxWatchStarts : monitorFolder(m)
    \/ \E m \in 1..MaxWatchStarts : processCSVFiles(m)

SpecWatch == Init /\ [][NextWatch]_vars

\* C11 as stated: a monitor loop whose stop channel has been closed begins
\* no scan of the source folder, even when a tick is due as well.
C11_NoScanAfterStop ==
    [][\A m \in 1..MaxWatchStarts :
          m \in watchClosed
              => ~(monitors[m].pc = "select" /\ monitors'[m].pc = "scan")]_vars

(***************************************************************************)
(* DownloadJobs and the semaphore: downloader.go:37-78, 98-101.  One call  *)
(* on the first jobs up to NSemJobs, under the build's ceiling and a        *)
(* budget of MaxBudget passes, with requests that may fail.                 *)
(***************************************************************************)
InitSem ==
    /\ InitBesidesManager(DefaultBurstPolling, DefaultExponentialBackoff, OnlyToDo({}))
    /\ batch = NewDownloadManager(MaxConcurrent, MaxBudget)

NextSem ==
    \/ \E n \in 0..NSemJobs : CallDownloadJobs(1, 1..n)
    \/ \E j \in 1..NSemJobs : RunStep(<<1, j>>, FlakyNet)
    \/ CallStep(1)

SpecSem == InitSem /\ [][NextSem]_vars

\* C12: at every moment the number of per-job downloads executing is at
\* most the configured ceiling, however many jobs were handed over.
C12_AtMostMaxConcurrent == Cardinality(Executing) <= MaxConcurrent

\* the ceiling reached while another job waits for a token
C12_Witness ==
    /\ Cardinality(Executing) = MaxConcurrent
    /\ \E g \in Runs : tries[g].pc = "waiting"

(***************************************************************************)
(* One downloadJob call at a time, on a disk and a network that may fail   *)
(* in every way.                                                           *)
(***************************************************************************)
NextDownload ==
    \/ \E j \in 1..NTriedJobs : CallDownloadJobs(1, {j})
    \/ \E j \in 1..NTriedJobs : RunStep(<<1, j>>, AnyDisk)
    \/ \E j \in 1..NTriedJobs : RegenerateStep(<<1, j>>, AnyDisk)
    \/ DownloadPanicExits
    \/ CallStep(1)
    \/ NextBatch(1)

SpecDownload == Init /\ [][NextDownload]_vars

\* the goroutines of the jobs followed
Tried == {1} \X (1..NTriedJobs)

\* the retry loop of the call is over
Ended(t) == t.pc \in {"done", "returned", "sent", "finished"}

\* C13: downloadJob makes at most RetryAttempts fetches, each after the
\* first preceded by one retry delay; it fails on a network error only once
\* the budget is used up, and a failed result carries an error.
C13_RetryBudget ==
    \A g \in Tried :
        LET t == tries[g]
        IN  /\ t.fetches <= RetryAttempts
            /\ t.pc = "try" => (t.fetches = t.attempt - 1 /\ t.slept = t.attempt - 1)
            /\ (Ended(t) /\ ~t.success) => t.err # "none"
            /\ (Ended(t) /\ ~t.success /\ t.err = "network")
                   => (t.fetches = RetryAttempts /\ t.slept = RetryAttempts - 1)

\* a download failed on a network error after three fetches and two delays
C13_Witness ==
    \E g \in Tried :
        /\ Ended(tries[g]) /\ ~tries[g].success
        /\ tries[g].err = "network"
        /\ tries[g].fetches = RetryAttempts
        /\ tries[g].slept = RetryAttempts - 1

\* C14 as stated: when downloadJob has failed on a network error after the
\* retries or on a compression error, no file of the job is in jobs/to_do.
C14_NothingLeftOnFailure ==
    \A g \in Tried :
        (Ended(tries[g]) /\ ~tries[g].success
            /\ tries[g].err \in {"network", "compression"})
            => ToDoOf(g[2]) = {}

\* C15 as stated: when the fetched text has empty data streams and
\* downloadJob succeeds, it has made exactly one regeneration call, the .job
\* holds the regenerated text, and the job has exactly its .job in
\* jobs/to_do.
C15_RegeneratedOnce ==
    \A g \in Tried :
        (Ended(tries[g]) /\ tries[g].success /\ tries[g].text = "empty")
            => /\ tries[g].regens = 1
               /\ tries[g].packed = "regenerated"
               /\ ToDoOf(g[2]) = {"job"}

(***************************************************************************)
(* The opt/* folders: the parameter-optimization watcher, the per-day-      *)
(* summary scans it starts and the daily summary watcher                    *)
(* (csv_uploader.go:231-413 and 1019-1150), the moves of FileManager        *)
(* (downloader.go:369-420) and the consumer of UploadEventChan              *)
(* (downloader.go:1094-1098).                                               *)
(***************************************************************************)
nonOptVars == <<pollerVars, watchVars, dlVars, expandVars, knobVars, packVars, retestVars, lateVars>>

\* the events waiting in the channel, counted by type
Total(ch) == ch["opt_upload"] + ch["daily_summary_upload"]

\* a plain send: ready only when the channel has room
CanPublishWhenRoom(ch) == Total(ch) < UploadEventChanCap

\* select { case UploadEventChan <- ...: default: }: one case is always ready
CanPublish(ch) == TRUE

\* the send case when there is room, the default case otherwise
Offer(ch, e) ==
    IF Total(ch) < UploadEventChanCap THEN [ch EXCEPT ![e] = @ + 1] ELSE ch

Offered(ch) == IF Total(ch) < UploadEventChanCap THEN "sent" ELSE "dropped"

\* os.Rename: fails when the source is gone, or for a reason of the system
RenameOutcomes == {"ok", "failed"}

Renamed(fs, name, from, o) == name \in fs[from] /\ o = "ok"

Rename(fs, name, from, to, o) ==
    IF Renamed(fs, name, from, o)
    THEN [fs EXCEPT ![from] = @ \ {name}, ![to] = @ \cup {name}]
    ELSE fs

MoveOptFile(fs, name, o) == Rename(fs, name, "in", "done", o)

MoveDailySummaryFile(fs, name, o) == Rename(fs, name, "summary", "done", o)

MoveDailySummaryFileToError(fs, name, o) == Rename(fs, name, "summary", "error", o)

\* the folders that hold a file of this name
Holding(fs, name) == {d \in OptFolderNames : name \in fs[d]}

\* os.ReadDir lists by name
FirstOf(S) == CHOOSE f \in S : \A g \in S : f[2] <= g[2]

\* the loop goes on to the next listed file, or the call returns
NextFile(w, f, more, done) ==
    [pc |-> IF w.todo \ {f} = {} THEN done ELSE more,
     todo |-> w.todo \ {f}, cur |-> <<>>, res |-> "none"]

\* uploads accepted so far, counted up to MaxUploads
Accepted(n) == IF n < MaxUploads THEN n + 1 ELSE n

\* the Engine writes a result file into opt/in
EngineWritesOpt(f) ==
    /\ f \notin optFolders["in"]
    /\ optFolders' = [optFolders EXCEPT !["in"] = @ \cup {f}]
    /\ UNCHANGED <<uploadEventChan, optWatch, scans, dsum, optResult, repResult,
                   uploads, managers, nonOptVars>>

\* the Engine writes a per-day summary into opt/summary
EngineWritesRep(r) ==
    /\ r \notin optFolders["summary"]
    /\ optFolders' = [optFolders EXCEPT !["summary"] = @ \cup {r}]
    /\ UNCHANGED <<uploadEventChan, optWatch, scans, dsum, optResult, repResult,
                   uploads, managers, nonOptVars>>

\* oum.stopCh and dsum.stopCh are written by Start under the mutex and read
\* by the monitor loops without it: a read returns the channel the loop was
\* started with or one made by a later Start.  Loop w was started with
\* channel w.
ManagerStopChReads(k, w) == w..managers[k].stopCh

\* OptUploadManager.Start: go monitorOptFolder(), unless already running
OptStart ==
    /\ ~managers["opt"].isRunning
    /\ ~Crashed
    /\ managers["opt"].stopCh < MaxOptStarts
    /\ managers' = [managers EXCEPT !["opt"] = Started(@)]
    /\ optWatch' = [optWatch EXCEPT ![managers["opt"].stopCh + 1].pc = "select"]
    /\ UNCHANGED <<optFolders, uploadEventChan, scans, dsum, optResult, repResult,
                   uploads, nonOptVars>>

\* OptUploadManager.Stop
OptStop ==
    /\ managers["opt"].isRunning
    /\ ~Crashed
    /\ managers' = [managers EXCEPT !["opt"] = Stopped(@)]
    /\ UNCHANGED <<optFolders, uploadEventChan, optWatch, scans, dsum, optResult,
                   repResult, uploads, nonOptVars>>

\* monitorOptFolder: case <-oum.stopCh: return
monitorOptFolder(w) ==
    /\ optWatch[w].pc = "select"
    /\ ~Crashed
    /\ \E c \in ManagerStopChReads("opt", w) : c \in managers["opt"].closed
    /\ optWatch' = [optWatch EXCEPT ![w].pc = "exited"]
    /\ UNCHANGED <<optFolders, uploadEventChan, scans, dsum, optResult, repResult,
                   uploads, managers, nonOptVars>>

\* a tick: processOptFiles lists opt/in (an unreadable or empty folder ends
\* the call at once)
processOptFiles(w) ==
    /\ optWatch[w].pc = "select"
    /\ ~Crashed
    /\ optFolders["in"] # {}
    /\ optWatch' = [optWatch EXCEPT ![w].pc = "loop", ![w].todo = optFolders["in"]]
    /\ UNCHANGED <<optFolders, uploadEventChan, scans, dsum, optResult, repResult,
                   uploads, managers, nonOptVars>>

\* extractMetadata fails, UploadOpt fails, or the cloud accepts the file
UploadOutcomes == {"ok", "meta", "failed"}

\* uploadOptFile up to the answer of UploadOpt; on an error processOptFiles
\* logs it and goes on to the next file
uploadOptFile(w, o) ==
    /\ optWatch[w].pc = "loop"
    /\ ~Crashed
    /\ LET f == FirstOf(optWatch[w].todo)
       IN  /\ o = "ok" => f \in optFolders["in"]
           /\ IF o = "ok"
              THEN /\ optWatch' = [optWatch EXCEPT ![w].pc = "publish", ![w].cur = f]
                   /\ optResult' = [optResult EXCEPT ![f] =
                          [NoOptResult EXCEPT !.upload = "ok"]]
                   /\ uploads' = Accepted(uploads)
              ELSE /\ optWatch' = [optWatch EXCEPT
                          ![w] = NextFile(optWatch[w], f, "loop", "select")]
                   /\ optResult' = [optResult EXCEPT ![f] =
                          [NoOptResult EXCEPT !.upload = o, !.reported = "error",
                                              !.at = Holding(optFolders, f)]]
                   /\ UNCHANGED uploads
    /\ UNCHANGED <<optFolders, uploadEventChan, scans, dsum, repResult, managers,
                   nonOptVars>>

\* uploadOptFile: the event for the burst trigger
PublishOptEvent(w) ==
    /\ optWatch[w].pc = "publish"
    /\ ~Crashed
    /\ CanPublish(uploadEventChan)
    /\ uploadEventChan' = Offer(uploadEventChan, "opt_upload")
    /\ optResult' = [optResult EXCEPT ![optWatch[w].cur].event = Offered(uploadEventChan)]
    /\ optWatch' = [optWatch EXCEPT ![w].pc = "wfo"]
    /\ UNCHANGED <<optFolders, scans, dsum, repResult, uploads, managers, nonOptVars>>

\* how the walk-forward second pass ends: not asked for by the file name,
\* the file is not of a walk-forward job, done, failed at a stage, or with
\* the panic of generateWFORetestXML, which reads oos_percent from the
\* job's descriptor with extractXMLTagValue (wfo_retest_integration.go:420,
\* api.go:830) outside every recover
WFOStages == {"decompress", "parse", "gate", "locate", "build", "persist"}

WFOOutcomes == {"skipped", "notwfo", "ok", "panic"} \cup WFOStages

\* processWFORetestGenerationWithFallback: the error of the generation
\* (building the XML, saving it, submitting it) is logged, nil is returned
processWFORetestGenerationWithFallback(o) == "nil"

\* checkAndTriggerCombinedWFO: the file not found, parseOPTFile failing
\* (decompress, parse) and the checks of triggerWFORetestGeneration are
\* returned as errors
checkAndTriggerCombinedWFO(o) ==
    IF o \in {"locate", "decompress", "parse", "gate"} THEN "error"
    ELSE IF o \in {"build", "persist"} THEN processWFORetestGenerationWithFallback(o)
    ELSE "nil"

\* uploadOptFile after the upload: the error of the second pass is logged as
\* a warning, return nil
uploadOptFileReturns(wfoErr) == "nil"

\* the second-pass descriptor of .opt file f in jobs/to_do: its .xml and its
\* .job
RetestFiles(f) == {<<<<"retest", f[2]>>, ext>> : ext \in {"xml", "job"}}

AllRetestFiles == UNION {RetestFiles(f) : f \in OptFiles}

\* what saveWFORetestXML leaves in jobs/to_do: both files when the second
\* pass is done; when saving fails, what it had written by then (the .xml
\* is removed after a failed compression, a file it cannot remove stays);
\* nothing when the pass ends before it
RetestLeft(f, o) ==
    IF o = "ok" THEN {RetestFiles(f)}
    ELSE IF o = "persist" THEN SUBSET RetestFiles(f)
    ELSE {{}}

\* uploadOptFile from the second pass on (go scanAndUploadDailySummaries,
\* return), then processOptFiles: MoveOptFile unless an error came back.  A
\* second pass that panics ends the process inside uploadOptFile: no scan is
\* started, nothing is returned and MoveOptFile is not called
finishOptFile(w, o, r, left) ==
    /\ optWatch[w].pc = "wfo"
    /\ ~Crashed
    /\ left \in RetestLeft(optWatch[w].cur, o)
    /\ LET f == optWatch[w].cur
           reported == uploadOptFileReturns(checkAndTriggerCombinedWFO(o))
           fs == IF reported = "nil" THEN MoveOptFile(optFolders, f, r)
                 ELSE optFolders
           moved == IF reported # "nil" THEN "none"
                    ELSE IF Renamed(optFolders, f, "in", r) THEN "ok" ELSE "failed"
       IN  IF o = "panic"
           THEN /\ optWatch' = [optWatch EXCEPT ![w].pc = "panic"]
                /\ optResult' = [optResult EXCEPT ![f].wfo = o,
                                                  ![f].at = Holding(optFolders, f)]
                /\ UNCHANGED <<optFolders, scans>>
           ELSE /\ \E s \in 1..MaxScans :
                     /\ scans[s].pc = "idle"
                     /\ \A u \in 1..(s - 1) : scans[u].pc # "idle"
                     /\ scans' = [scans EXCEPT ![s].pc = "sleep"]
                /\ optFolders' = fs
                /\ optResult' = [optResult EXCEPT ![f].wfo = o, ![f].reported = reported,
                                                  ![f].moved = moved,
                                                  ![f].at = Holding(fs, f)]
                /\ optWatch' = [optWatch EXCEPT
                       ![w] = NextFile(optWatch[w], f, "loop", "select")]
    /\ files' = [files EXCEPT !["to_do"] = @ \cup left]
    /\ UNCHANGED <<uploadEventChan, dsum, repResult, uploads, managers, todoReadable,
                   schedVars, histVars, burstVars, guiVars, watchVars, dlVars,
                   expandVars, knobVars, packVars, retestVars, lateVars>>

\* the panic has unwound monitorOptFolder (its deferred ticker.Stop(),
\* csv_uploader.go:264): the runtime prints it and ends the process
WatcherPanicExits(w) ==
    /\ optWatch[w].pc = "panic"
    /\ optWatch' = [optWatch EXCEPT ![w].pc = "dead"]
    /\ UNCHANGED <<optFolders, uploadEventChan, scans, dsum, optResult, repResult,
                   uploads, managers, nonOptVars>>

\* scanAndUploadDailySummaries after time.Sleep: the *_Daily.rep files of
\* opt/summary (an unreadable or empty folder ends the call)
scanList(s) ==
    /\ scans[s].pc = "sleep"
    /\ ~Crashed
    /\ scans' = [scans EXCEPT ![s] =
           IF optFolders["summary"] = {} THEN NoOptWatch
           ELSE [NoOptWatch EXCEPT !.pc = "wait", !.todo = optFolders["summary"]]]
    /\ UNCHANGED <<optFolders, uploadEventChan, optWatch, dsum, optResult,
                   repResult, uploads, managers, nonOptVars>>

\* WaitForBacktestByJob(jobID, 60 s): the row seen, the time out, an error
RowOutcomes == {"present", "absent", "error"}

\* the wait of the scan for the next listed file; without the row the file
\* is skipped
ScanWait(s, row) ==
    /\ scans[s].pc = "wait"
    /\ ~Crashed
    /\ LET f == FirstOf(scans[s].todo)
       IN  IF row = "present"
           THEN /\ scans' = [scans EXCEPT ![s].pc = "upload", ![s].cur = f]
                /\ repResult' = [repResult EXCEPT ![f] =
                       [NoRepResult EXCEPT !.row = row]]
           ELSE /\ scans' = [scans EXCEPT ![s] = NextFile(scans[s], f, "wait", "idle")]
                /\ repResult' = [repResult EXCEPT ![f] =
                       [NoRepResult EXCEPT !.row = row,
                                           !.at = Holding(optFolders, f)]]
    /\ UNCHANGED <<optFolders, uploadEventChan, optWatch, dsum, optResult,
                   uploads, managers, nonOptVars>>

\* UploadDailySummary opens the file and posts it
SummaryUploadOutcomes == {"ok", "failed"}

ScanUpload(s, o) ==
    /\ scans[s].pc = "upload"
    /\ ~Crashed
    /\ o = "ok" => scans[s].cur \in optFolders["summary"]
    /\ scans' = [scans EXCEPT ![s].pc = "move", ![s].res = o]
    /\ uploads' = IF o = "ok" THEN Accepted(uploads) ELSE uploads
    /\ UNCHANGED <<optFolders, uploadEventChan, optWatch, dsum, optResult,
                   repResult, managers, nonOptVars>>

\* _ = MoveDailySummaryFile, or _ = MoveDailySummaryFileToError after a
\* failed upload; refused: os.Rename failed though the file was there
ScanMove(s, r) ==
    /\ scans[s].pc = "move"
    /\ ~Crashed
    /\ LET f == scans[s].cur
           from == "summary"
           fs == IF scans[s].res = "ok" THEN MoveDailySummaryFile(optFolders, f, r)
                 ELSE MoveDailySummaryFileToError(optFolders, f, r)
       IN  /\ optFolders' = fs
           /\ repResult' = [repResult EXCEPT ![f].upload = scans[s].res,
                   ![f].moved = IF Renamed(optFolders, f, from, r) THEN "ok" ELSE "failed",
                   ![f].refused = f \in optFolders[from] /\ r # "ok",
                   ![f].at = Holding(fs, f)]
           /\ scans' = [scans EXCEPT ![s] = NextFile(scans[s], f, "wait", "idle")]
    /\ UNCHANGED <<uploadEventChan, optWatch, dsum, optResult, uploads, managers,
                   nonOptVars>>

\* DailySummaryUploadManager.Start: go monitorSummaryFolder(), unless
\* already running.  The program has no call of it (the only caller,
\* GUI.startDailySummaryMonitoring, is called nowhere)
DsumStart ==
    /\ ~managers["dsum"].isRunning
    /\ ~Crashed
    /\ managers["dsum"].stopCh < MaxOptStarts
    /\ managers' = [managers EXCEPT !["dsum"] = Started(@)]
    /\ dsum' = [dsum EXCEPT ![managers["dsum"].stopCh + 1].pc = "select"]
    /\ UNCHANGED <<optFolders, uploadEventChan, optWatch, scans, optResult,
                   repResult, uploads, nonOptVars>>

\* DailySummaryUploadManager.Stop
DsumStop ==
    /\ managers["dsum"].isRunning
    /\ ~Crashed
    /\ managers' = [managers EXCEPT !["dsum"] = Stopped(@)]
    /\ UNCHANGED <<optFolders, uploadEventChan, optWatch, scans, dsum, optResult,
                   repResult, uploads, nonOptVars>>

\* monitorSummaryFolder: case <-dsum.stopCh: return
monitorSummaryFolder(w) ==
    /\ dsum[w].pc = "select"
    /\ ~Crashed
    /\ \E c \in ManagerStopChReads("dsum", w) : c \in managers["dsum"].closed
    /\ dsum' = [dsum EXCEPT ![w].pc = "exited"]
    /\ UNCHANGED <<optFolders, uploadEventChan, optWatch, scans, optResult,
                   repResult, uploads, managers, nonOptVars>>

\* a tick: processFiles lists the .rep files of opt/summary
processFiles(w) ==
    /\ dsum[w].pc = "select"
    /\ ~Crashed
    /\ optFolders["summary"] # {}
    /\ dsum' = [dsum EXCEPT ![w].pc = "loop", ![w].todo = optFolders["summary"]]
    /\ UNCHANGED <<optFolders, uploadEventChan, optWatch, scans, optResult,
                   repResult, uploads, managers, nonOptVars>>

\* uploadDailySummaryFile up to the answer of UploadDailySummary
uploadDailySummaryFile(w, o) ==
    /\ dsum[w].pc = "loop"
    /\ ~Crashed
    /\ LET f == FirstOf(dsum[w].todo)
       IN  /\ o = "ok" => f \in optFolders["summary"]
           /\ dsum' = [dsum EXCEPT ![w].pc = IF o = "ok" THEN "publish" ELSE "move",
                                   ![w].cur = f, ![w].res = o]
    /\ uploads' = IF o = "ok" THEN Accepted(uploads) ELSE uploads
    /\ UNCHANGED <<optFolders, uploadEventChan, optWatch, scans, optResult,
                   repResult, managers, nonOptVars>>

\* uploadDailySummaryFile: the event for the burst trigger
PublishSummaryEvent(w) ==
    /\ dsum[w].pc = "publish"
    /\ ~Crashed
    /\ CanPublish(uploadEventChan)
    /\ uploadEventChan' = Offer(uploadEventChan, "daily_summary_upload")
    /\ dsum' = [dsum EXCEPT ![w].pc = "move"]
    /\ UNCHANGED <<optFolders, optWatch, scans, optResult, repResult, uploads,
                   managers, nonOptVars>>

\* processFiles: to opt/done after the upload, to opt/error after its failure
DsumMove(w, r) ==
    /\ dsum[w].pc = "move"
    /\ ~Crashed
    /\ optFolders' = IF dsum[w].res = "ok"
                     THEN MoveDailySummaryFile(optFolders, dsum[w].cur, r)
                     ELSE MoveDailySummaryFileToError(optFolders, dsum[w].cur, r)
    /\ dsum' = [dsum EXCEPT ![w] = NextFile(dsum[w], dsum[w].cur, "loop", "select")]
    /\ UNCHANGED <<uploadEventChan, optWatch, scans, optResult, repResult,
                   uploads, managers, nonOptVars>>

\* monitorUploadEvents (downloader.go:1094-1098), the goroutine NewGUI
\* starts: one event received from UploadEventChan and
\* go g.polling.HandleUploadEvent(event); h is the handler goroutine started
monitorUploadEvents(h, e) ==
    /\ uploadEventChan[e] > 0
    /\ ~Crashed
    /\ handlers[h].pc = "idle"
    /\ \A g \in 1..(h - 1) : handlers[g].pc # "idle"
    /\ uploadEventChan' = [uploadEventChan EXCEPT ![e] = @ - 1]
    /\ handlers' = [handlers EXCEPT ![h] = HandleUploadEvent(e)]
    /\ UNCHANGED <<optFolders, optWatch, scans, dsum, optResult, repResult,
                   uploads, managers, watchVars, dlVars, expandVars, knobVars,
                   packVars, retestVars, lateVars, burstPollChan, burstCfg,
                   schedVars, histVars, fsVars, guiVars>>

\* the events received and handled by at most n handler goroutines
UploadEventsHandled(n) ==
    \/ \E h \in 1..n, e \in EventTypes : monitorUploadEvents(h, e)
    \/ \E h \in 1..n : InspectBacklog(h)

\* the parameter-optimization watcher started once and stopped, the scans
\* it starts, and the consumer of its events with the handler it starts for
\* each event received, in a run where the cloud accepts MaxUploads uploads
NextOpt ==
    \/ \E f \in OptFiles : EngineWritesOpt(f)
    \/ \E r \in RepFiles : EngineWritesRep(r)
    \/ managers["opt"].stopCh = 0 /\ OptStart
    \/ OptStop
    \/ \E w \in 1..MaxOptStarts : monitorOptFolder(w)
    \/ \E w \in 1..MaxOptStarts : processOptFiles(w)
    \/ \E w \in 1..MaxOptStarts, o \in UploadOutcomes :
         (o = "ok" => uploads < MaxUploads) /\ uploadOptFile(w, o)
    \/ \E w \in 1..MaxOptStarts : PublishOptEvent(w)
    \/ \E w \in 1..MaxOptStarts, o \in WFOOutcomes, r \in RenameOutcomes :
         \E left \in SUBSET AllRetestFiles : finishOptFile(w, o, r, left)
    \/ \E w \in 1..MaxOptStarts : WatcherPanicExits(w)
    \/ \E s \in 1..MaxScans : scanList(s)
    \/ \E s \in 1..MaxScans, row \in RowOutcomes : ScanWait(s, row)
    \/ \E s \in 1..MaxScans, o \in SummaryUploadOutcomes :
         (o = "ok" => uploads < MaxUploads) /\ ScanUpload(s, o)
    \/ \E s \in 1..MaxScans, r \in RenameOutcomes : ScanMove(s, r)
    \/ UploadEventsHandled(SessionEvents)

SpecOpt == Init /\ [][NextOpt]_vars

\* the parameter-optimization watcher started, stopped and started again,
\* on .opt files that ask for no second pass and with no summary to scan
NextOptRestart ==
    \/ \E f \in OptFiles : EngineWritesOpt(f)
    \/ OptStart
    \/ OptStop
    \/ \E w \in 1..MaxOptStarts : monitorOptFolder(w)
    \/ \E w \in 1..MaxOptStarts : processOptFiles(w)
    \/ \E w \in 1..MaxOptStarts, o \in UploadOutcomes :
         (o = "ok" => uploads < MaxUploads) /\ uploadOptFile(w, o)
    \/ \E w \in 1..MaxOptStarts : PublishOptEvent(w)
    \/ \E w \in 1..MaxOptStarts, r \in RenameOutcomes :
         finishOptFile(w, "skipped", r, {})
    \/ \E s \in 1..MaxScans : scanList(s)
    \/ UploadEventsHandled(MaxEvents)

SpecOptRestart == Init /\ [][NextOptRestart]_vars

\* the daily summary watcher, were it started: its Start, Stop and loops on
\* the summaries the Engine writes
NextSummary ==
    \/ \E r \in RepFiles : EngineWritesRep(r)
    \/ DsumStart
    \/ DsumStop
    \/ \E w \in 1..MaxOptStarts : monitorSummaryFolder(w)
    \/ \E w \in 1..MaxOptStarts : processFiles(w)
    \/ \E w \in 1..MaxOptStarts, o \in SummaryUploadOutcomes : uploadDailySummaryFile(w, o)
    \/ \E w \in 1..MaxOptStarts : PublishSummaryEvent(w)
    \/ \E w \in 1..MaxOptStarts, r \in RenameOutcomes : DsumMove(w, r)
    \/ UploadEventsHandled(MaxEvents)

SpecSummary == Init /\ [][NextSummary]_vars

\* the parameter-optimization watcher started once and the consumer of its
\* events with the handler it starts for each event received, with no bound
\* on the uploads
NextBus ==
    \/ \E f \in OptFiles : EngineWritesOpt(f)
    \/ managers["opt"].stopCh = 0 /\ OptStart
    \/ \E w \in 1..MaxOptStarts : processOptFiles(w)
    \/ \E w \in 1..MaxOptStarts, o \in UploadOutcomes : uploadOptFile(w, o)
    \/ \E w \in 1..MaxOptStarts : PublishOptEvent(w)
    \/ \E w \in 1..MaxOptStarts, o \in WFOOutcomes, r \in RenameOutcomes :
         \E left \in SUBSET AllRetestFiles : finishOptFile(w, o, r, left)
    \/ \E w \in 1..MaxOptStarts : WatcherPanicExits(w)
    \/ \E s \in 1..MaxScans : scanList(s)
    \/ UploadEventsHandled(SessionEvents)

SpecBus == Init /\ [][NextBus]_vars

(***************************************************************************)
(* The way of an upload event: the watcher publishes it after an upload,   *)
(* monitorUploadEvents receives it and starts its handler, the handler     *)
(* signals the burst.                                                      *)
(***************************************************************************)
\* the steps of the parameter-optimization watcher, once started, on result
\* files that ask for no second pass, in a run where the cloud accepts
\* `accepted` uploads and every upload and rename succeeds (their failures
\* are in SpecOpt); the Engine writes a file of a name once, and the scan a
\* file starts finds opt/summary empty
OptUploads(accepted) ==
    \/ \E f \in OptFiles : Holding(optFolders, f) = {} /\ EngineWritesOpt(f)
    \/ \E w \in 1..MaxOptStarts : processOptFiles(w)
    \/ \E w \in 1..MaxOptStarts : uploads < accepted /\ uploadOptFile(w, "ok")
    \/ \E w \in 1..MaxOptStarts : PublishOptEvent(w)
    \/ \E w \in 1..MaxOptStarts : finishOptFile(w, "skipped", "ok", {})
    \/ \E s \in 1..MaxScans : scanList(s)

\* the steps of the daily summary watcher, once started, under the same
\* conditions
SummaryUploads(accepted) ==
    \/ \E r \in RepFiles : Holding(optFolders, r) = {} /\ EngineWritesRep(r)
    \/ \E w \in 1..MaxOptStarts : processFiles(w)
    \/ \E w \in 1..MaxOptStarts : uploads < accepted /\ uploadDailySummaryFile(w, "ok")
    \/ \E w \in 1..MaxOptStarts : PublishSummaryEvent(w)
    \/ \E w \in 1..MaxOptStarts : DsumMove(w, "ok")

(***************************************************************************)
(* One monitoring session up to the moment it is stopped: the control loop *)
(* started once, its downloads, the parameter-optimization watcher and the *)
(* upload events it publishes, the engine, and a cloud that holds as many  *)
(* jobs as one poll response can carry.                                    *)
(***************************************************************************)
Next ==
    \/ stopCh = 0 /\ onStartDaemon
    \/ startOptMonitoring
    \/ \E d \in 1..MaxStarts : DaemonStep(d, MaxBatch, 1..MaxBatch) \/ WaitBurst(d)
    \/ \E g \in Runs : RunStep(g, SoundDisk)
    \/ \E c \in Calls : CallStep(c)
    \/ OptUploads(SessionEvents)
    \/ UploadEventsHandled(SessionEvents)
    \/ EngineTakes

Spec == InitSession /\ [][Next]_vars

(***************************************************************************)
(* One monitoring session with its upload events, stopped at any moment.   *)
(* A select with a case that is ready returns, a loop that is not blocked  *)
(* goes on, and the sleep of an upload handler ends; nothing makes the     *)
(* timer of the interval wait fire.  Of onStopDaemon's work the close of   *)
(* the stop channel is kept; the Stop calls on the upload managers, which  *)
(* touch neither the loop nor the burst channel, are in SpecLoop.          *)
(***************************************************************************)
NextWake ==
    \/ stopCh = 0 /\ onStartDaemon
    \/ startOptMonitoring
    \/ onStopDaemon
    \/ CloseStopCh
    \/ \E d \in 1..MaxStarts :
           \/ DaemonStep(d, MaxBatch, 1..MaxBatch)
           \/ SuspendStop(d)
           \/ WaitStop(d)
           \/ WaitBurst(d)
    \/ \E g \in Runs : RunStep(g, FlakyNet)
    \/ \E c \in Calls : CallStep(c)
    \/ OptUploads(SessionEvents)
    \/ UploadEventsHandled(SessionEvents)
    \/ EngineTakes

SpecWake ==
    /\ InitSession
    /\ [][NextWake]_vars
    /\ \A d \in 1..MaxStarts : WF_vars(WaitBurst(d)) /\ WF_vars(DaemonLoop(d))
    /\ \A h \in 1..SessionEvents : WF_vars(InspectBacklog(h))

(***************************************************************************)
(* The upload events alone, under any setting of the burst switches, on a  *)
(* jobs/to_do that holds what earlier sessions left and that the engine    *)
(* empties: the two upload managers started, the events they publish and   *)
(* the handlers of these events.                                           *)
(***************************************************************************)
InitAnyBurstCfg ==
    \E cfg \in [Enabled : BOOLEAN, EnableOptTrigger : BOOLEAN,
                 EnableSummaryTrigger : BOOLEAN], n \in 0..(JobThreshold + 1) :
        InitLeft(cfg, n)

NextBurst ==
    \/ managers["opt"].stopCh = 0 /\ OptStart
    \/ managers["dsum"].stopCh = 0 /\ DsumStart
    \/ OptUploads(MaxEvents)
    \/ SummaryUploads(MaxEvents)
    \/ UploadEventsHandled(MaxEvents)
    \/ EngineTakes
    \/ \E b \in BOOLEAN : SetTodoReadable(b)

SpecBurst == InitAnyBurstCfg /\ [][NextBurst]_vars

\* C16: every .opt file the parameter-optimization watcher has processed in
\* a tick is in opt/done when its upload succeeded and in opt/error when its
\* upload failed.
C16_MovedByUploadResult ==
    \A f \in OptFiles :
        LET x == optResult[f]
        IN  /\ (x.upload = "ok" /\ x.reported # "none") => "done" \in x.at
            /\ x.upload \in {"meta", "failed"} => "error" \in x.at

\* C17: for every *_Daily.rep file a per-day-summary scan examines: the scan
\* that saw the row and whose upload was accepted leaves the file in
\* opt/done, the scan that saw no row within the timeout leaves a file of
\* opt/summary where it is, and the scan whose upload failed leaves the file
\* in opt/error (unless the system refused the rename of a file that was
\* there).
C17_ScanOutcome ==
    [][\A s \in 1..MaxScans :
          /\ (scans[s].pc = "move" /\ scans'[s].pc # "move") =>
                LET f == scans[s].cur
                    x == repResult'[f]
                IN  /\ (scans[s].res = "ok" /\ ~x.refused) => f \in optFolders'["done"]
                    /\ (scans[s].res = "failed" /\ ~x.refused) =>
                           f \in optFolders'["error"]
          /\ (scans[s].pc = "wait" /\ scans'[s].pc \notin {"wait", "upload"}
                  /\ scans'[s].todo = {}) =>
                \A f \in scans[s].todo :
                    f \in optFolders["summary"] => f \in optFolders'["summary"]]_vars

\* C19: whatever the walk-forward second pass did, a file whose primary
\* upload succeeded is reported as uploaded, MoveOptFile is called for it,
\* and it is in opt/done unless the rename itself failed.
C19_SecondPassSwallowed ==
    \A f \in OptFiles :
        LET x == optResult[f]
        IN  (x.upload = "ok" /\ x.wfo # "none") =>
                /\ x.reported = "nil"
                /\ x.moved \in {"ok", "failed"}
                /\ x.moved = "ok" => "done" \in x.at

\* C18: the watcher that has an event to publish can always take the publish
\* step, whatever the channel holds and however slow the consumer is; the
\* step puts the event into the channel when there is room and leaves the
\* channel as it is, dropping the event, when the channel is full.
C18_PublishNeverBlocks ==
    /\ [](\A w \in 1..MaxOptStarts :
             optWatch[w].pc = "publish" => ENABLED PublishOptEvent(w))
    /\ [][\A w \in 1..MaxOptStarts : PublishOptEvent(w) =>
            /\ optWatch'[w].pc = "wfo"
            /\ IF Total(uploadEventChan) = UploadEventChanCap
               THEN uploadEventChan' = uploadEventChan
               ELSE Total(uploadEventChan') = Total(uploadEventChan) + 1]_vars

\* an event was dropped on the full channel and the watcher went on
C18_Witness ==
    /\ Total(uploadEventChan) = UploadEventChanCap
    /\ \E w \in 1..MaxOptStarts :
           /\ optWatch[w].pc = "wfo"
           /\ optResult[optWatch[w].cur].event = "dropped"

(***************************************************************************)
(* The expansion of a descriptor by DownloadFile: api.go:402-438 and        *)
(* 459-606, 607-835.  A text is a sequence of tokens: a whole               *)
(* <task_type>X</task_type> element, an opening or closing tag, a comma, a  *)
(* newline, or a piece of other text.  No token is part of another, so the  *)
(* searches of the code for a tag are searches for a token.                 *)
(***************************************************************************)
Open(tag) == <<"open", tag>>
Close(tag) == <<"close", tag>>
TaskType(x) == <<"task", x>>
Comma == <<"sep", ",">>
Newline == <<"nl", "">>
Indent == <<"sp", "  ">>
Num(n) == <<"num", n>>
Date(ymd) == <<"date", ymd>>
Text(x) == <<"text", x>>

\* the runes the trimming functions of the code cut off
IsSpace(tok) == tok \in {Newline, Indent}

\* the tokens of the descriptor texts read from the cloud
Tokens ==
    {TaskType("MM"), TaskType("MTF"), TaskType("WFO"), TaskType("WFM"), TaskType("DWFM"),
     Open("symbols"), Close("symbols"), Open("timeframes"), Close("timeframes"),
     Open("oos_runs"), Close("oos_runs"), Comma, <<"text", "a">>, Close("root")}

\* a slice expression with low > high: the goroutine panics and nothing is
\* returned
Panic == <<<<"panic", "">>>>

\* strings.Index: the first place of the token, 0 for the -1 of the code
Index(s, tok) ==
    IF \E i \in 1..Len(s) : s[i] = tok
    THEN CHOOSE i \in 1..Len(s) : s[i] = tok /\ \A j \in 1..(i - 1) : s[j] # tok
    ELSE 0

Contains(s, tok) == Index(s, tok) # 0

\* bytes.Count
Count(s, tok) == Cardinality({i \in 1..Len(s) : s[i] = tok})

RECURSIVE Split(_)
\* strings.Split(value, ",")
Split(s) ==
    IF ~Contains(s, Comma) THEN <<s>>
    ELSE <<SubSeq(s, 1, Index(s, Comma) - 1)>>
         \o Split(SubSeq(s, Index(s, Comma) + 1, Len(s)))

RECURSIVE Join(_)
\* strings.Join(jobElements, "\n")
Join(parts) ==
    IF parts = <<>> THEN <<>>
    ELSE IF Len(parts) = 1 THEN parts[1]
    ELSE parts[1] \o <<Newline>> \o Join(Tail(parts))

RECURSIVE TrimLeft(_)
TrimLeft(s) == IF s # <<>> /\ IsSpace(Head(s)) THEN TrimLeft(Tail(s)) ELSE s

RECURSIVE TrimRight(_)
TrimRight(s) ==
    IF s # <<>> /\ IsSpace(s[Len(s)]) THEN TrimRight(SubSeq(s, 1, Len(s) - 1)) ELSE s

TrimSpace(s) == TrimLeft(TrimRight(s))

\* fmt.Sprintf("<root>\n%s\n</root>", content)
RootWrap(content) == <<Open("root"), Newline>> \o content \o <<Newline, Close("root")>>

\* a replaceXMLTag that leaves the element as it was
keepXMLTag(xml, tagName, newValue) == xml

\* replaceXMLTag: the first opening tag to the first closing tag replaced
replaceXMLTag(xml, tagName, newValue) ==
    LET start == Index(xml, Open(tagName))
        end == Index(xml, Close(tagName))
    IN  IF start = 0 \/ end = 0 THEN xml
        ELSE SubSeq(xml, 1, start - 1) \o <<Open(tagName)>> \o newValue
             \o <<Close(tagName)>> \o SubSeq(xml, end + 1, Len(xml))

\* removeXMLTag: the element cut out, the space around it made one newline
removeXMLTag(xml, tagName) ==
    LET start == Index(xml, Open(tagName))
        end == Index(xml, Close(tagName))
    IN  IF start = 0 \/ end = 0 THEN xml
        ELSE TrimRight(SubSeq(xml, 1, start - 1)) \o <<Newline>>
             \o TrimLeft(SubSeq(xml, end + 1, Len(xml)))

\* extractXMLTagValue: "missing" for its error, Panic when the closing tag
\* comes first
extractXMLTagValue(xml, tagName) ==
    LET start == Index(xml, Open(tagName))
        end == Index(xml, Close(tagName))
    IN  IF start = 0 \/ end = 0 THEN <<<<"missing", tagName>>>>
        ELSE IF end < start THEN Panic
        ELSE TrimSpace(SubSeq(xml, start + 1, end - 1))

NonBlank(piece) == piece # <<>>

\* processMMJob and processMTFJob: one job element per non-blank item of
\* the list element listTag, the item put into the element itemTag
ExpandList(xml, listTag, itemTag) ==
    LET start == Index(xml, Open(listTag))
        end == Index(xml, Close(listTag))
    IN  IF start = 0 \/ end = 0 THEN RootWrap(xml)
        ELSE IF end < start THEN Panic
        ELSE LET items == Split(SubSeq(xml, start + 1, end - 1))
                 trimmed == [i \in 1..Len(items) |-> TrimSpace(items[i])]
                 kept == SelectSeq(trimmed, NonBlank)
                 jobElements == [i \in 1..Len(kept) |->
                     removeXMLTag(replaceXMLTag(xml, itemTag, kept[i]), listTag)]
             IN  IF Len(items) <= 1 THEN RootWrap(xml)
                 ELSE RootWrap(Join(jobElements))

processMMJob(xml) == ExpandList(xml, "symbols", "Symbol")

processMTFJob(xml) == ExpandList(xml, "timeframes", "Timeframe")

\* strings.LastIndex, 0 for the -1 of the code
LastIndex(s, tok) ==
    IF \E i \in 1..Len(s) : s[i] = tok
    THEN CHOOSE i \in 1..Len(s) : s[i] = tok /\ \A j \in (i + 1)..Len(s) : s[j] # tok
    ELSE 0

\* addXMLTag: the element put before the last </Job>
addXMLTag(xml, tagName, value) ==
    LET insertPoint == LastIndex(xml, Close("Job"))
    IN  IF insertPoint = 0 THEN xml
        ELSE SubSeq(xml, 1, insertPoint - 1)
             \o <<Indent, Open(tagName)>> \o value \o <<Close(tagName), Newline>>
             \o SubSeq(xml, insertPoint, Len(xml))

\* the days from 1970-01-01 to the day y-m-d of the calendar
DaysFromCivil(ymd) ==
    LET y == IF ymd[2] <= 2 THEN ymd[1] - 1 ELSE ymd[1]
        era == y \div 400
        yoe == y - era * 400
        mp == IF ymd[2] > 2 THEN ymd[2] - 3 ELSE ymd[2] + 9
        doy == (153 * mp + 2) \div 5 + ymd[3] - 1
        doe == yoe * 365 + yoe \div 4 - yoe \div 100 + doy
    IN  era * 146097 + doe - 719468

\* the day of the calendar z days after 1970-01-01
CivilFromDays(z) ==
    LET z0 == z + 719468
        era == z0 \div 146097
        doe == z0 - era * 146097
        yoe == (doe - doe \div 1460 + doe \div 36524 - doe \div 146096) \div 365
        doy == doe - (365 * yoe + yoe \div 4 - yoe \div 100)
        mp == (5 * doy + 2) \div 153
        d == doy - (153 * mp + 2) \div 5 + 1
        m == IF mp < 10 THEN mp + 3 ELSE mp - 9
    IN  <<IF m <= 2 THEN yoe + era * 400 + 1 ELSE yoe + era * 400, m, d>>

\* the days of the month m of the year y
DaysIn(y, m) ==
    IF m \in {4, 6, 9, 11} THEN 30
    ELSE IF m # 2 THEN 31
    ELSE IF y % 4 = 0 /\ (y % 100 # 0 \/ y % 400 = 0) THEN 29 ELSE 28

\* time.Parse("2006-01-02", value) returns no error
IsDate(value) ==
    /\ Len(value) = 1
    /\ value[1][1] = "date"
    /\ value[1][2][2] \in 1..12
    /\ value[1][2][3] \in 1..DaysIn(value[1][2][1], value[1][2][2])

\* parseDate: the time as days since 1970-01-01
parseDate(value) == DaysFromCivil(value[1][2])

\* formatDate
formatDate(t) == <<Date(CivilFromDays(t))>>

\* strconv.Atoi returns no error
IsNumber(value) == Len(value) = 1 /\ value[1][1] = "num"

\* strconv.ParseFloat returns no error: a whole number, or the 0.0
\* processWFOJob writes into the last job element
IsFloat(value) == IsNumber(value) \/ value = <<<<"text", "0.0">>>>

\* the float parsed, a whole number in every text of the model
ParseFloat(value) == IF IsNumber(value) THEN value[1][2] ELSE 0

\* DateRange.GetEndDate
GetEndDate(dr) == IF dr.OSEndDate # <<>> THEN dr.OSEndDate ELSE dr.ISEndDate

\* calculateWFORuns: the loop runs for run = 0 .. runs, one more than the
\* run count asked for
RunsRequested(runs) == runs
RunsGenerated(runs) == runs + 1

\* calculateWFORuns: the IS start of a run after the first, api.go:773
ISStartNoOverlap(prevOSEnd, isDays) == prevOSEnd + 1
ISStartAfter(prevOSEnd, isDays) == prevOSEnd - isDays

(***************************************************************************)
(* float64 arithmetic as the build for windows/amd64 does it: every        *)
(* operation is rounded to 53 bits, to nearest, ties to even, and no        *)
(* multiplication is fused with an addition.  A natural number is the       *)
(* sequence of its digits to the base 2^15, lowest first; a float is        *)
(* neg, m and e with the value (-1)^neg * m * 2^e.  Infinities, NaN and     *)
(* subnormal numbers are left out: no divisor is zero.                      *)
(***************************************************************************)
LimbBits == 15
LimbBase == 32768

RECURSIVE Pow2(_)
Pow2(n) == IF n = 0 THEN 1 ELSE 2 * Pow2(n - 1)

RECURSIVE BigNorm(_)
\* the digits without leading zeros
BigNorm(a) ==
    IF a = <<>> THEN a
    ELSE IF a[Len(a)] = 0 THEN BigNorm(SubSeq(a, 1, Len(a) - 1)) ELSE a

RECURSIVE BigOfInt(_)
BigOfInt(n) == IF n = 0 THEN <<>> ELSE <<n % LimbBase>> \o BigOfInt(n \div LimbBase)

RECURSIVE BigToInt(_)
BigToInt(a) == IF a = <<>> THEN 0 ELSE a[1] + LimbBase * BigToInt(Tail(a))

Digit(a, i) == IF i <= Len(a) THEN a[i] ELSE 0

RECURSIVE BigCmpFrom(_, _, _)
BigCmpFrom(a, b, i) ==
    IF i = 0 THEN 0
    ELSE IF Digit(a, i) < Digit(b, i) THEN -1
    ELSE IF Digit(a, i) > Digit(b, i) THEN 1
    ELSE BigCmpFrom(a, b, i - 1)

\* -1, 0, 1 as a is less than, equal to, greater than b
BigCmp(a, b) == BigCmpFrom(a, b, IF Len(a) > Len(b) THEN Len(a) ELSE Len(b))

RECURSIVE BigAddFrom(_, _, _, _)
BigAddFrom(a, b, i, carry) ==
    IF i > Len(a) /\ i > Len(b)
    THEN IF carry = 0 THEN <<>> ELSE <<carry>>
    ELSE LET sum == Digit(a, i) + Digit(b, i) + carry
         IN  <<sum % LimbBase>> \o BigAddFrom(a, b, i + 1, sum \div LimbBase)

BigAdd(a, b) == BigAddFrom(a, b, 1, 0)

RECURSIVE BigSubFrom(_, _, _, _)
BigSubFrom(a, b, i, borrow) ==
    IF i > Len(a) THEN <<>>
    ELSE LET diff == Digit(a, i) - Digit(b, i) - borrow
         IN  <<IF diff < 0 THEN diff + LimbBase ELSE diff>>
             \o BigSubFrom(a, b, i + 1, IF diff < 0 THEN 1 ELSE 0)

\* a - b for a >= b
BigSub(a, b) == BigNorm(BigSubFrom(a, b, 1, 0))

RECURSIVE BigMulSmallFrom(_, _, _, _)
BigMulSmallFrom(a, k, i, carry) ==
    IF i > Len(a)
    THEN IF carry = 0 THEN <<>> ELSE <<carry>>
    ELSE LET prod == a[i] * k + carry
         IN  <<prod % LimbBase>> \o BigMulSmallFrom(a, k, i + 1, prod \div LimbBase)

\* a * k for k < 2^15
BigMulSmall(a, k) == BigNorm(BigMulSmallFrom(a, k, 1, 0))

\* a * (2^15)^n
BigShlLimbs(a, n) == IF a = <<>> THEN a ELSE [i \in 1..n |-> 0] \o a

RECURSIVE BigMulFrom(_, _, _)
BigMulFrom(a, b, i) ==
    IF i > Len(b) THEN <<>>
    ELSE BigAdd(BigShlLimbs(BigMulSmall(a, b[i]), i - 1), BigMulFrom(a, b, i + 1))

BigMul(a, b) == BigMulFrom(a, b, 1)

\* a * 2^bits
BigShl(a, bits) ==
    BigShlLimbs(BigMulSmall(a, Pow2(bits % LimbBits)), bits \div LimbBits)

RECURSIVE BigDivSmallFrom(_, _, _, _)
BigDivSmallFrom(a, k, i, rem) ==
    IF i = 0 THEN <<>>
    ELSE LET cur == rem * LimbBase + a[i]
         IN  BigDivSmallFrom(a, k, i - 1, cur % k) \o <<cur \div k>>

\* a \div 2^bits
BigShr(a, bits) ==
    LET dropped == IF bits \div LimbBits >= Len(a) THEN <<>>
                   ELSE SubSeq(a, bits \div LimbBits + 1, Len(a))
    IN  BigNorm(BigDivSmallFrom(dropped, Pow2(bits % LimbBits), Len(dropped), 0))

RECURSIVE IntBitLen(_)
IntBitLen(n) == IF n = 0 THEN 0 ELSE 1 + IntBitLen(n \div 2)

BigBitLen(a) == IF a = <<>> THEN 0 ELSE LimbBits * (Len(a) - 1) + IntBitLen(a[Len(a)])

\* the bit of weight 2^i
BigBit(a, i) == (Digit(a, i \div LimbBits + 1) \div Pow2(i % LimbBits)) % 2

RECURSIVE MaxDigit(_, _, _)
\* the greatest k <= guess with d * k <= cur
MaxDigit(cur, d, guess) ==
    IF BigCmp(BigMulSmall(d, guess), cur) <= 0 THEN guess
    ELSE MaxDigit(cur, d, guess - 1)

\* the next digit of a quotient by d, whose highest digit is 2^14 or more:
\* at most two below the quotient of the two highest digits of cur by the
\* highest digit of d
QuotientDigit(cur, d) ==
    LET high == Digit(cur, Len(d) + 1) * LimbBase + Digit(cur, Len(d))
        guess == high \div d[Len(d)]
    IN  MaxDigit(cur, d, IF guess > LimbBase - 1 THEN LimbBase - 1 ELSE guess)

RECURSIVE BigDivModFrom(_, _, _)
\* long division, digit by digit: quotient and remainder of the digits of n
\* from the i-th on by d
BigDivModFrom(n, d, i) ==
    IF i > Len(n) THEN [q |-> <<>>, r |-> <<>>]
    ELSE LET above == BigDivModFrom(n, d, i + 1)
             cur == BigNorm(<<n[i]>> \o above.r)
             k == QuotientDigit(cur, d)
         IN  IF above.r = <<>> /\ n[i] = 0
             THEN [q |-> BigNorm(<<0>> \o above.q), r |-> <<>>]
             ELSE [q |-> BigNorm(<<k>> \o above.q), r |-> BigSub(cur, BigMulSmall(d, k))]

\* quotient and remainder of n by d # 0, both scaled first to bring the
\* highest digit of d to 2^14 or more
Unscaled(scaled, scale) == [q |-> scaled.q, r |-> BigShr(scaled.r, scale)]

ScaledDivMod(n, d, scale) ==
    Unscaled(BigDivModFrom(BigShl(n, scale), BigShl(d, scale), 1), scale)

BigDivMod(n, d) == ScaledDivMod(n, d, LimbBits - IntBitLen(d[Len(d)]))

\* the float nearest to n * 2^e, or to a little more when sticky is set
\* kept rounded up when the bits dropped are more than half a unit (half > 0),
\* or are half a unit (half = 0) and sticky is set or kept is odd
RoundKept(neg, kept, e, half, sticky) ==
    [neg |-> neg,
     m |-> IF half > 0 \/ (half = 0 /\ (sticky \/ BigBit(kept, 0) = 1))
           THEN BigAdd(kept, <<1>>) ELSE kept,
     e |-> e]

\* the bits of n dropped below kept, compared with half a unit
HalfOf(n, kept, shift) == BigCmp(BigSub(n, BigShl(kept, shift)), BigShl(<<1>>, shift - 1))

RoundTo(neg, n, e, sticky, shift, kept) ==
    RoundKept(neg, kept, e + shift, HalfOf(n, kept, shift), sticky)

RoundBy(neg, n, e, sticky, shift) ==
    IF shift <= 0 THEN [neg |-> neg, m |-> n, e |-> e]
    ELSE RoundTo(neg, n, e, sticky, shift, BigShr(n, shift))

FRound(neg, n, e, sticky) == RoundBy(neg, n, e, sticky, BigBitLen(n) - 53)

\* float64(n)
FOfInt(n) == [neg |-> n < 0, m |-> BigOfInt(IF n < 0 THEN -n ELSE n), e |-> 0]

FMul(x, y) ==
    IF x.m = <<>> \/ y.m = <<>> THEN [neg |-> FALSE, m |-> <<>>, e |-> 0]
    ELSE FRound(x.neg # y.neg, BigMul(x.m, y.m), x.e + y.e, FALSE)

\* the quotient qr.q rounded, a remainder making it a little more
RoundQuotient(neg, qr, e) == FRound(neg, qr.q, e, qr.r # <<>>)

\* x / y with the dividend shifted by s bits first
DivShifted(x, y, s) ==
    RoundQuotient(x.neg # y.neg, BigDivMod(BigShl(x.m, s), y.m), x.e - y.e - s)

\* the shift that leaves 57 bits or more in the quotient
DivShift(want) == IF want > 0 THEN want ELSE 0

FDiv(x, y) ==
    IF y.m # <<>> /\ x.m = <<>> THEN [neg |-> FALSE, m |-> <<>>, e |-> 0]
    ELSE DivShifted(x, y, DivShift(57 + BigBitLen(y.m) - BigBitLen(x.m)))

FNeg(x) == [x EXCEPT !.neg = ~x.neg]

\* a * 2^e with the sign of x, plus b * 2^e with the sign of y, c comparing
\* a with b
AddAligned(x, y, a, b, c, e) ==
    IF x.neg # y.neg /\ c = 0 THEN [neg |-> FALSE, m |-> <<>>, e |-> 0]
    ELSE FRound(IF x.neg = y.neg \/ c > 0 THEN x.neg ELSE y.neg,
                IF x.neg = y.neg THEN BigAdd(a, b)
                ELSE IF c > 0 THEN BigSub(a, b) ELSE BigSub(b, a),
                e, FALSE)

AddShifted(x, y, a, b, e) == AddAligned(x, y, a, b, BigCmp(a, b), e)

AddAt(x, y, e) == AddShifted(x, y, BigShl(x.m, x.e - e), BigShl(y.m, y.e - e), e)

FAdd(x, y) ==
    IF x.m = <<>> THEN y
    ELSE IF y.m = <<>> THEN x
    ELSE AddAt(x, y, IF x.e < y.e THEN x.e ELSE y.e)

FSub(x, y) == FAdd(x, FNeg(y))

\* int(x): the whole part, toward zero
FTrunc(x) ==
    LET whole == IF x.e >= 0 THEN BigToInt(BigShl(x.m, x.e))
                 ELSE BigToInt(BigShr(x.m, -x.e))
    IN  IF x.neg THEN -whole ELSE whole

\* time.Time.Sub: a Duration is an int64 count of nanoseconds, and a
\* difference out of its range is the largest or the smallest Duration.
\* Two dates 106752 days or more apart are out of range.
MaxDurationDays == 106751

\* Duration.Hours() of the largest Duration, 2^63-1 ns:
\* float64(d / Hour) + float64(d % Hour) / (60 * 60 * 1e9)
\*   = float64(2562047) + float64(2836854775807) / 3600000000000
\*   = 5501955730157246 * 2^-31 (2562047.7880152157); the smallest Duration,
\* -2^63 ns, gives the same float64 with the sign changed
MaxDurationHours == [neg |-> FALSE, m |-> <<11966, 18875, 12287, 156>>, e |-> -31]

\* t.Sub(u).Hours() for two dates days apart
SubHours(days) ==
    IF days > MaxDurationDays
    THEN MaxDurationHours
    ELSE IF days < -MaxDurationDays
    THEN FNeg(MaxDurationHours)
    ELSE FOfInt(24 * days)

\* t.Sub(u).Hours() / 24
SubDays(days) == FDiv(SubHours(days), FOfInt(24))

\* calculateWFORuns, api.go:746-754: oosSamplePct, isSamplePct, daysPerRun
OosSamplePct(pct) == FDiv(FOfInt(pct), FOfInt(100))
IsSamplePct(pct) == FSub(FOfInt(1), OosSamplePct(pct))
DaysPerRun(totalDays, runs, pct) ==
    FDiv(FOfInt(totalDays),
         FAdd(FMul(FOfInt(runs), OosSamplePct(pct)), IsSamplePct(pct)))

\* calculateWFORuns: isDays := int(daysPerRun * isSamplePct) and
\* osDays := int(daysPerRun * oosSamplePct), for percents in whole numbers
IsDaysOf(totalDays, runs, pct) ==
    FTrunc(FMul(DaysPerRun(totalDays, runs, pct), IsSamplePct(pct)))
OsDaysOf(totalDays, runs, pct) ==
    FTrunc(FMul(DaysPerRun(totalDays, runs, pct), OosSamplePct(pct)))

RECURSIVE BuildRanges(_, _, _, _, _, _)
\* calculateWFORuns: the loop, dateRanges holding the runs made so far
BuildRanges(dateRanges, startTime, endDate, runs, isDays, osDays) ==
    LET run == Len(dateRanges)
        ISStartDate ==
            IF run = 0 THEN formatDate(startTime)
            ELSE formatDate(ISStartAfter(parseDate(dateRanges[run].OSEndDate), isDays))
        ISEndDate == formatDate(parseDate(ISStartDate) + isDays)
        isEnd == parseDate(ISEndDate)
        dr == [ISStartDate |-> ISStartDate,
               ISEndDate |-> ISEndDate,
               OSStartDate |-> formatDate(isEnd + 1),
               OSEndDate |-> IF run = runs - 1 THEN endDate
                             ELSE formatDate(isEnd + 1 + osDays)]
    IN  IF run >= RunsGenerated(runs) THEN dateRanges
        ELSE BuildRanges(Append(dateRanges, dr), startTime, endDate, runs, isDays, osDays)

\* calculateWFORuns, called with dates that parse
RangesOver(startDate, endDate, runs, oosPercent, totalDays) ==
    BuildRanges(<<>>, parseDate(startDate), endDate, runs,
                IsDaysOf(totalDays, runs, oosPercent),
                OsDaysOf(totalDays, runs, oosPercent))

calculateWFORuns(startDate, endDate, runs, oosPercent) ==
    RangesOver(startDate, endDate, runs, oosPercent,
               FTrunc(SubDays(parseDate(endDate) - parseDate(startDate))))

\* processWFOJob: the job element of run i
WFOJobElement(xml, dateRanges, i, oosPercent) ==
    LET dr == dateRanges[i]
        numbered == addXMLTag(xml, "run", <<Num(i)>>)
        started == replaceXMLTag(numbered, "startDate", dr.ISStartDate)
        ended == replaceXMLTag(started, "endDate", GetEndDate(dr))
        withIS == addXMLTag(addXMLTag(ended, "is_start_date", dr.ISStartDate),
                            "is_end_date", dr.ISEndDate)
        withOS ==
            IF i = Len(dateRanges)
            THEN replaceXMLTag(withIS, "oos_percent", <<Text("0.0")>>)
            ELSE replaceXMLTag(
                     addXMLTag(addXMLTag(withIS, "os_start_date", dr.OSStartDate),
                               "os_end_date", dr.OSEndDate),
                     "oos_percent", oosPercent)
    IN  removeXMLTag(withOS, "oos_runs")

Missing(tagName) == <<<<"missing", tagName>>>>

\* processWFOJob: one job element for each date range, in a root element
WFOJobElements(xml, oosPercent, dateRanges) ==
    RootWrap(Join([i \in 1..Len(dateRanges) |->
                      WFOJobElement(xml, dateRanges, i, oosPercent)]))

\* processWFOJob
processWFOJob(xml) ==
    LET oosRuns == extractXMLTagValue(xml, "oos_runs")
        oosPercent == extractXMLTagValue(xml, "oos_percent")
        startDate == extractXMLTagValue(xml, "startDate")
        endDate == extractXMLTagValue(xml, "endDate")
    IN  IF oosRuns = Panic THEN Panic
        ELSE IF oosRuns = Missing("oos_runs") THEN RootWrap(xml)
        ELSE IF oosPercent = Panic THEN Panic
        ELSE IF oosPercent = Missing("oos_percent") THEN RootWrap(xml)
        ELSE IF startDate = Panic THEN Panic
        ELSE IF startDate = Missing("startDate") THEN RootWrap(xml)
        ELSE IF endDate = Panic THEN Panic
        ELSE IF endDate = Missing("endDate") THEN RootWrap(xml)
        ELSE IF ~IsNumber(oosRuns) \/ ~IsFloat(oosPercent) THEN RootWrap(xml)
        ELSE IF ~IsDate(startDate) \/ ~IsDate(endDate) THEN RootWrap(xml)
        ELSE WFOJobElements(xml, oosPercent,
                            calculateWFORuns(startDate, endDate, oosRuns[1][2],
                                             ParseFloat(oosPercent)))

\* DownloadFile, api.go:402-438: the text written to the descriptor file
expand(xml) ==
    IF Contains(xml, TaskType("MM")) /\ Contains(xml, Open("symbols"))
    THEN processMMJob(xml)
    ELSE IF Contains(xml, TaskType("MTF")) /\ Contains(xml, Open("timeframes"))
    THEN processMTFJob(xml)
    ELSE IF /\ \/ Contains(xml, TaskType("WFO"))
               \/ Contains(xml, TaskType("WFM"))
               \/ Contains(xml, TaskType("DWFM"))
            /\ Contains(xml, Open("oos_runs"))
    THEN processWFOJob(xml)
    ELSE RootWrap(xml)

\* DownloadFile: the body of the response read
ReadBody(t) ==
    /\ expandPc = "idle"
    /\ xmlContent' = t
    /\ expandPc' = "read"
    /\ UNCHANGED <<finalContent, pollerVars, watchVars, dlVars, optVars, knobVars, packVars, retestVars, lateVars>>

\* io.ReadAll: one more piece of the body read
ReadPiece(token) ==
    /\ expandPc = "idle"
    /\ Len(xmlContent) < MaxTokens
    /\ xmlContent' = Append(xmlContent, token)
    /\ UNCHANGED <<expandPc, finalContent, pollerVars, watchVars, dlVars, optVars, knobVars, packVars, retestVars, lateVars>>

\* io.ReadAll: the end of the body
ReadEnd ==
    /\ expandPc = "idle"
    /\ expandPc' = "read"
    /\ UNCHANGED <<xmlContent, finalContent, pollerVars, watchVars, dlVars, optVars, knobVars, packVars, retestVars, lateVars>>

\* out.WriteString(finalContent), or the panic of the expansion
Written(text) ==
    /\ finalContent' = text
    /\ expandPc' = IF text = Panic THEN "panic" ELSE "written"

\* DownloadFile: the expanded text written to the descriptor file
WriteExpanded ==
    /\ expandPc = "read"
    /\ Written(expand(xmlContent))
    /\ UNCHANGED <<xmlContent, pollerVars, watchVars, dlVars, optVars, knobVars, packVars, retestVars, lateVars>>

\* the body of any text of at most MaxTokens tokens read piece by piece
NextExpand ==
    \/ \E token \in Tokens : ReadPiece(token)
    \/ ReadEnd
    \/ WriteExpanded

SpecExpand == Init /\ [][NextExpand]_vars

\* C20: whatever descriptor text was read and whatever its task type, the
\* text written begins with <root>, ends with </root> and holds </root>
\* exactly once.
C20_RootWrap ==
    expandPc \in {"written", "panic"} =>
        /\ Head(finalContent) = Open("root")
        /\ finalContent[Len(finalContent)] = Close("root")
        /\ Count(finalContent, Close("root")) = 1

(***************************************************************************)
(* The scheduler under any setting of Config.Poll.ExponentialBackoff        *)
(* (config.go:58-62), called as in SpecSched with an empty to_do folder.    *)
(***************************************************************************)
BackoffFactors == {[num |-> 6, den |-> 5], [num |-> 3, den |-> 2], [num |-> 2, den |-> 1]}

BackoffKnobs == [Enabled : {TRUE}, Factor : BackoffFactors, MaxEmptyPolls : {2, 3, 4}]

InitAnyKnobs == \E knobs \in BackoffKnobs : InitWithKnobs(DefaultBurstPolling, knobs)

NextKnobs ==
    \/ \E jobCount \in {0, 2} : UpdateMetrics(jobCount)
    \/ \E hasJobs \in BOOLEAN, remaining \in {0, RemainingJobsThreshold + 1} :
           CalculateOptimalInterval(hasJobs, remaining)

SpecKnobs == InitAnyKnobs /\ [][NextKnobs]_vars

\* the arguments CalculateOptimalInterval is called with
CalcArgs == BOOLEAN \X {0, RemainingJobsThreshold + 1}

\* the call is decided by neither the suspend rule nor the hot cadence
PastSuspendAndHot(hasJobs, remaining) ==
    /\ ~(~countJobsInNewFolder.err /\ countJobsInNewFolder.count > RemainingJobsThreshold)
    /\ ~(hasJobs /\ remaining <= RemainingJobsThreshold)

\* d times the fraction f, truncated to nanoseconds
DurScale(d, f) ==
    LET m == d.ms * f.num
        low == ((m % f.den) * NsPerMs + d.ns * f.num) \div f.den
    IN  [ms |-> (m \div f.den) + (low \div NsPerMs), ns |-> low % NsPerMs]

DurMax(a, b) == IF DurLess(a, b) THEN b ELSE a

DurMin(a, b) == IF DurLess(a, b) THEN a ELSE b

\* C28: a call of nextInterval decided by neither the suspend rule nor the
\* hot cadence returns maxInterval if and only if the consecutive empty
\* polls are at least the configured max-empty-polls value, whatever that
\* value is.
C28_ColdIffKnobReached ==
    [][\A a \in CalcArgs :
          (CalculateOptimalInterval(a[1], a[2]) /\ PastSuspendAndHot(a[1], a[2]))
              => (call'.ret = GetMaxPollInterval
                    <=> consecutiveEmptyPolls >= backoffCfg.MaxEmptyPolls)]_vars

\* C29: a call that reaches the adaptive rule returns max(current / 2,
\* minInterval) after a poll that returned jobs, and min(current times the
\* configured exponential factor, maxInterval) after an empty poll.
C29_AdaptiveByFactor ==
    [][\A a \in CalcArgs :
          (/\ CalculateOptimalInterval(a[1], a[2])
           /\ PastSuspendAndHot(a[1], a[2])
           /\ consecutiveEmptyPolls < EmptyPollLimit)
              => call'.ret =
                   IF a[1] THEN DurMax(DurHalf(currentInterval), GetMinPollInterval)
                   ELSE DurMin(DurScale(currentInterval, backoffCfg.Factor),
                               GetMaxPollInterval)]_vars

(***************************************************************************)
(* The FileManager's compression methods (downloader.go:450-499), which    *)
(* nothing in the program calls: each is one call on the folder of a       *)
(* status, beside the moves of the FileManager.                            *)
(***************************************************************************)
\* FileManager.CompressJobFile(xmlFileName, status, deleteOriginal):
\* CompressXMLFile (compression.go:78-99) on {stem}.xml in the folder of
\* status, ending with c.  Without the .xml os.Open fails and nothing is
\* made; otherwise the .job is there from os.Create on, and the .xml is
\* removed when that was asked for and CompressFile returned no error
CompressJobFile(j, status, deleteOriginal, c) ==
    /\ ~Crashed
    /\ <<j, "xml">> \notin files[status] => c = "nofile"
    /\ c \in {"undeleted", "unflushed-undeleted"} => deleteOriginal
    /\ files' = [files EXCEPT ![status] =
           IF c = "nofile" THEN @
           ELSE IF deleteOriginal /\ Compressed(c) THEN (@ \cup {JobFile(j)}) \ {<<j, "xml">>}
           ELSE @ \cup {JobFile(j)}]
    /\ UNCHANGED <<todoReadable, schedVars, histVars, burstVars, guiVars, watchVars,
                   dlVars, optVars, expandVars, knobVars, packVars, retestVars, lateVars>>

\* the end of DecompressFile (compression.go:45-76): before its output was
\* created, after it with the stream cut short or refused by zlib, or nil
DecompressOutcomes == {"nofile", "partial", "ok"}

\* FileManager.DecompressJobFile(jobFileName, status): DecompressJobFile
\* (compression.go:102-115) on {stem}.job in the folder of status, which
\* leaves {stem}.xml beside the .job from os.Create on
DecompressJobFile(j, status, d) ==
    /\ ~Crashed
    /\ JobFile(j) \notin files[status] => d = "nofile"
    /\ files' = [files EXCEPT ![status] =
           IF d = "nofile" THEN @ ELSE @ \cup {<<j, "xml">>}]
    /\ UNCHANGED <<todoReadable, schedVars, histVars, burstVars, guiVars, watchVars,
                   dlVars, optVars, expandVars, knobVars, packVars, retestVars, lateVars>>

\* the FileManager called on the descriptors earlier sessions left in
\* jobs/to_do
NextFileManager ==
    \/ \E j \in 1..NFolderJobs, from \in Statuses, to \in Statuses :
           MoveJobFile(j, from, to)
    \/ \E j \in 1..NFolderJobs, status \in Statuses, deleteOriginal \in BOOLEAN,
          c \in CompressOutcomes : CompressJobFile(j, status, deleteOriginal, c)
    \/ \E j \in 1..NFolderJobs, status \in Statuses, d \in DecompressOutcomes :
           DecompressJobFile(j, status, d)

InitFileManager ==
    \E todo \in SUBSET {JobFile(j) : j \in 1..NFolderJobs} :
        /\ InitBesidesManager(DefaultBurstPolling, DefaultExponentialBackoff, OnlyToDo(todo))
        /\ batch = NewDownloadManager(MaxConcurrent, RetryAttempts)

SpecFileManager == InitFileManager /\ [][NextFileManager]_vars

(***************************************************************************)
(* The .job file while CompressXMLFile writes it: downloader.go:165-186,    *)
(* compression.go:13-42 and 78-99, with the Engine and the scheduler        *)
(* reading jobs/to_do meanwhile.                                            *)
(***************************************************************************)
\* downloadJob: os.Rename(tempPath, finalPath) puts {stem}.xml into to_do
RenameToFinal(j) ==
    /\ packing[j].pc = "idle"
    /\ files' = [files EXCEPT !["to_do"] = @ \cup {<<j, "xml">>}]
    /\ packing' = [packing EXCEPT ![j].pc = "xml"]
    /\ UNCHANGED <<todoReadable, schedVars, histVars, burstVars, guiVars, watchVars,
                   dlVars, optVars, expandVars, knobVars, retestVars, lateVars>>

\* CompressFile: os.Create(outputFile) makes {stem}.job in to_do, empty
CreateJobFile(j) ==
    /\ packing[j].pc = "xml"
    /\ files' = [files EXCEPT !["to_do"] = @ \cup {JobFile(j)}]
    /\ packing' = [packing EXCEPT ![j].pc = "copy", ![j].written = 0]
    /\ UNCHANGED <<todoReadable, schedVars, histVars, burstVars, guiVars, watchVars,
                   dlVars, optVars, expandVars, knobVars, retestVars, lateVars>>

\* CompressFile: one write of io.Copy; a failed write ends the call with an
\* error, and downloadJob removes the .xml
CopyChunk(j, ok) ==
    /\ packing[j].pc = "copy"
    /\ LET last == ok /\ packing[j].written + 1 = NChunks
       IN  /\ packing' = [packing EXCEPT
                 ![j].written = IF ok THEN @ + 1 ELSE @,
                 ![j].pc = IF ~ok THEN "failed" ELSE IF last THEN "close" ELSE "copy"]
           /\ files' = IF ~ok
                       THEN [files EXCEPT !["to_do"] = @ \ {<<j, "xml">>}]
                       ELSE files
    /\ UNCHANGED <<todoReadable, schedVars, histVars, burstVars, guiVars, watchVars,
                   dlVars, optVars, expandVars, knobVars, retestVars, lateVars>>

\* CompressFile after io.Copy: the deferred writer.Close() writes what the
\* compressor still holds and the checksum, output.Close() closes the file;
\* their errors are dropped (compression.go:26, 33), so CompressFile returns
\* nil whether or not the end of the stream is in the .job, and
\* CompressXMLFile removes the .xml
CloseJobFile(j, ok) ==
    /\ packing[j].pc = "close"
    /\ packing' = [packing EXCEPT ![j].pc = "done", ![j].closed = ok]
    /\ files' = [files EXCEPT !["to_do"] = @ \ {<<j, "xml">>}]
    /\ UNCHANGED <<todoReadable, schedVars, histVars, burstVars, guiVars, watchVars,
                   dlVars, optVars, expandVars, knobVars, retestVars, lateVars>>

\* the .job files whose content is not all on disk
Unfinished == {j \in 1..NFolderJobs : packing[j].written < NChunks \/ ~packing[j].closed}

NextCompress ==
    \/ \E j \in 1..NFolderJobs : RenameToFinal(j)
    \/ \E j \in 1..NFolderJobs : CreateJobFile(j)
    \/ \E j \in 1..NFolderJobs, ok \in BOOLEAN : CopyChunk(j, ok)
    \/ \E j \in 1..NFolderJobs, ok \in BOOLEAN : CloseJobFile(j, ok)
    \/ EngineTakes
    \/ \E hasJobs \in BOOLEAN : CalculateOptimalInterval(hasJobs, 0)

SpecCompress == Init /\ [][NextCompress]_vars

\* C30: a .job file is in jobs/to_do under its final name only when it is
\* completely written, the Engine never holds an unfinished one, and the
\* backlog count of the scheduler never includes one.
C30_PublishedComplete ==
    /\ [](\A j \in Unfinished :
            /\ JobFile(j) \notin files["to_do"]
            /\ JobFile(j) \notin files["in_progress"])
    /\ [][\A hasJobs \in BOOLEAN :
            CalculateOptimalInterval(hasJobs, 0)
                => \A j \in Unfinished : JobFile(j) \notin files["to_do"]]_vars

(***************************************************************************)
(* The walk-forward expansion: DownloadFile on descriptors that hold one    *)
(* job element of task type WFO with oos_runs, oos_percent, startDate and   *)
(* endDate (api.go:402-438, 610-711, 729-806).                              *)
(***************************************************************************)
\* among them a start and an end more than 2^63-1 nanoseconds apart
StartDates ==
    {<<1700, 1, 1>>, <<2007, 1, 1>>, <<2008, 2, 29>>, <<2011, 12, 31>>, <<2012, 2, 24>>}
EndDates == {<<2012, 3, 1>>, <<2013, 9, 8>>, <<2014, 1, 2>>, <<2024, 1, 1>>}
OOSPercents == {20, 50}

WFOText(start, end, runs, pct) ==
    <<Open("Job"), Newline, TaskType("WFO"), Newline,
      Open("startDate"), Date(start), Close("startDate"), Newline,
      Open("endDate"), Date(end), Close("endDate"), Newline,
      Open("oos_runs"), Num(runs), Close("oos_runs"), Newline,
      Open("oos_percent"), Num(pct), Close("oos_percent"), Newline,
      Close("Job")>>

WFOTexts ==
    {WFOText(start, end, runs, pct) :
        start \in StartDates, end \in EndDates, runs \in 1..MaxRuns, pct \in OOSPercents}

NextWFO ==
    \/ \E t \in WFOTexts : ReadBody(t)
    \/ WriteExpanded

SpecWFO == Init /\ [][NextWFO]_vars

RECURSIVE JobElementsOf(_)
\* the pieces of a text from each <Job> to the next one
JobElementsOf(s) ==
    LET i == Index(s, Open("Job"))
        j == Index(SubSeq(s, i + 1, Len(s)), Open("Job"))
    IN  IF i = 0 THEN <<>>
        ELSE IF j = 0 THEN <<SubSeq(s, i, Len(s))>>
        ELSE <<SubSeq(s, i, i + j - 1)>> \o JobElementsOf(SubSeq(s, i + j, Len(s)))

\* a walk-forward descriptor was read and its expansion written
WFOWritten == expandPc = "written" /\ xmlContent \in WFOTexts

\* the N, the percent and the dates of the descriptor read
RunsOf(xml) == extractXMLTagValue(xml, "oos_runs")[1][2]
PercentOf(xml) == extractXMLTagValue(xml, "oos_percent")[1][2]
TotalDaysOf(xml) ==
    FTrunc(SubDays(parseDate(extractXMLTagValue(xml, "endDate"))
                       - parseDate(extractXMLTagValue(xml, "startDate"))))

\* C21: the expansion of a walk-forward descriptor with oos_runs = N holds
\* exactly N+1 job elements, their run tags count 1, 2, .., N+1 in this
\* order, and the last element has oos_percent 0.0 and neither an
\* os_start_date nor an os_end_date tag.
C21_RunCount ==
    WFOWritten =>
        LET els == JobElementsOf(finalContent)
        IN  /\ Count(finalContent, Open("Job")) = RunsOf(xmlContent) + 1
            /\ Len(els) = RunsOf(xmlContent) + 1
            /\ \A k \in 1..Len(els) : extractXMLTagValue(els[k], "run") = <<Num(k)>>
            /\ extractXMLTagValue(els[Len(els)], "oos_percent") = <<Text("0.0")>>
            /\ ~Contains(els[Len(els)], Open("os_start_date"))
            /\ ~Contains(els[Len(els)], Open("os_end_date"))

C21_Witness ==
    /\ WFOWritten
    /\ RunsOf(xmlContent) = 3
    /\ Len(JobElementsOf(finalContent)) = 4
    /\ Contains(JobElementsOf(finalContent)[3], Open("os_end_date"))

\* C22: in the expansion of a walk-forward descriptor the endDate of the
\* last element (run N+1) is the IS end of that run, and the endDate of
\* every earlier element is the OS end of its run.
C22_EndDates ==
    WFOWritten =>
        LET els == JobElementsOf(finalContent)
        IN  \A k \in 1..Len(els) :
                extractXMLTagValue(els[k], "endDate") =
                    IF k = Len(els) THEN extractXMLTagValue(els[k], "is_end_date")
                    ELSE extractXMLTagValue(els[k], "os_end_date")

\* C23: in the expansion of a walk-forward descriptor with N runs, the OS
\* end of each run k <= N is the IS start of run k+1 plus isDays days, and
\* the OS end of run N is the endDate of the descriptor.
C23_Overlap ==
    WFOWritten =>
        LET els == JobElementsOf(finalContent)
            N == RunsOf(xmlContent)
            isDays == IsDaysOf(TotalDaysOf(xmlContent), N, PercentOf(xmlContent))
        IN  /\ Len(els) = N + 1
            /\ \A k \in 1..N :
                   parseDate(extractXMLTagValue(els[k], "os_end_date")) =
                       parseDate(extractXMLTagValue(els[k + 1], "is_start_date")) + isDays
            /\ extractXMLTagValue(els[N], "os_end_date") =
                   extractXMLTagValue(xmlContent, "endDate")

C23_Witness ==
    /\ WFOWritten
    /\ RunsOf(xmlContent) = 2
    /\ PercentOf(xmlContent) = 20
    /\ Len(JobElementsOf(finalContent)) = 3
    /\ extractXMLTagValue(JobElementsOf(finalContent)[3], "is_start_date") # Missing("is_start_date")

(***************************************************************************)
(* The multi-symbol expansion: DownloadFile on descriptors that hold one    *)
(* job element of task type MM with a Symbol element and a symbols list of  *)
(* distinct entries (api.go:402-438, 461-510, 565-607).                     *)
(***************************************************************************)
SymbolNames == {"@ES", "@NQ", "@CL"}

\* the lists of 2 .. MaxSymbols distinct symbols
SymbolLists ==
    {l \in UNION {[1..n -> SymbolNames] : n \in 2..MaxSymbols} :
        \A i, j \in 1..Len(l) : i # j => l[i] # l[j]}

RECURSIVE ListText(_, _)
\* the text of a list, a blank after each comma when spaced
ListText(l, spaced) ==
    IF Len(l) = 1 THEN <<Text(l[1])>>
    ELSE <<Text(l[1]), Comma>> \o (IF spaced THEN <<Indent>> ELSE <<>>)
         \o ListText(Tail(l), spaced)

MMText(symbol, l, spaced) ==
    <<Open("Job"), Newline, TaskType("MM"), Newline,
      Open("Symbol"), Text(symbol), Close("Symbol"), Newline,
      Open("symbols")>> \o ListText(l, spaced) \o <<Close("symbols"), Newline,
      Close("Job")>>

MMTexts ==
    {MMText(symbol, l, spaced) :
        symbol \in SymbolNames, l \in SymbolLists, spaced \in BOOLEAN}

NextMM ==
    \/ \E t \in MMTexts : ReadBody(t)
    \/ WriteExpanded

SpecMM == Init /\ [][NextMM]_vars

\* a multi-symbol descriptor was read and its expansion written
MMWritten == expandPc = "written" /\ xmlContent \in MMTexts

\* C24: the expansion of a multi-symbol descriptor whose list has k >= 2
\* distinct entries holds exactly k <Job> opening tags, the Symbol of the
\* i-th job element is the i-th entry of the list, no <symbols> tag is
\* left, and every Symbol value is an entry of the list.
C24_OnePerSymbol ==
    MMWritten =>
        LET els == JobElementsOf(finalContent)
            entries == Split(extractXMLTagValue(xmlContent, "symbols"))
        IN  /\ Count(finalContent, Open("Job")) = Len(entries)
            /\ Len(els) = Len(entries)
            /\ \A i \in 1..Len(els) :
                   extractXMLTagValue(els[i], "Symbol") = TrimSpace(entries[i])
            /\ Count(finalContent, Open("symbols")) = 0
            /\ Count(finalContent, Close("symbols")) = 0
            /\ \A i \in 1..Len(els) : \E j \in 1..Len(entries) :
                   extractXMLTagValue(els[i], "Symbol") = TrimSpace(entries[j])

C24_Witness ==
    /\ MMWritten
    /\ Len(JobElementsOf(finalContent)) = 3
    /\ Contains(xmlContent, Indent)
    /\ extractXMLTagValue(JobElementsOf(finalContent)[3], "Symbol")
           # extractXMLTagValue(xmlContent, "Symbol")

(***************************************************************************)
(* The second pass of a walk-forward job: triggerWFORetestGeneration        *)
(* (csv_uploader.go:625-705) and generateWFORetestXML, buildWFORetestXML,   *)
(* createWFORetestJobElement, transformParametersToFixed and                *)
(* saveWFORetestXML (wfo_retest_integration.go).  A parameters section is   *)
(* one token holding its blocks; a block is a name and the sequence of its  *)
(* child elements <<name, text>>; a file name is the record of the parts    *)
(* fmt.Sprintf puts together.                                               *)
(***************************************************************************)
JobID == "5b856adb"
Params(blocks) == <<"params", blocks>>
FileName(name) == <<"file", name>>
Failed == <<<<"error", "">>>>

\* strings.ToLower on the strings of the model
Lower(x) ==
    CASE x \in {"TRUE", "True"} -> "true"
      [] x \in {"String", "STRING"} -> "string"
      [] x \in {"Bool", "BOOL"} -> "bool"
      [] x \in {"Boolean", "BOOLEAN"} -> "boolean"
      [] OTHER -> x

\* strings.EqualFold
EqualFold(x, y) == Lower(x) = Lower(y)

\* p.Children[key] of the map the decoder fills: the last child of the name,
\* "" when there is none
Child(p, key) ==
    LET at == {i \in 1..Len(p.Children) : p.Children[i][1] = key}
    IN  IF at = {} THEN ""
        ELSE p.Children[CHOOSE i \in at : \A j \in at : j <= i][2]

\* a parameter left with the type it had
KeepParamType(dataType) == "OptRange"

\* transformParametersToFixed: Fixed, FixedString or FixedBool by data_type
FixedTypeOf(dataType) ==
    IF EqualFold(dataType, "string") THEN "FixedString"
    ELSE IF EqualFold(dataType, "bool") \/ EqualFold(dataType, "boolean") THEN "FixedBool"
    ELSE "Fixed"

HasText(child) == child[2] # ""

\* transformParametersToFixed: the block written for one block read
RenderBlock(p, optimizedValues) ==
    LET dataType == Child(p, "data_type")
        value == IF p.Name \in DOMAIN optimizedValues THEN optimizedValues[p.Name]
                 ELSE Child(p, "value")
    IN  IF Child(p, "param_type") = "OptRange" /\ EqualFold(Child(p, "optimizable_ind"), "true")
        THEN [Name |-> p.Name,
              Children |-> <<<<"value", value>>, <<"param_type", FixedTypeOf(dataType)>>>>
                           \o (IF dataType # "" THEN <<<<"data_type", dataType>>>> ELSE <<>>)
                           \o <<<<"optimizable_ind", "false">>>>]
        ELSE [Name |-> p.Name,
              Children |-> SelectSeq(<<<<"value", Child(p, "value")>>,
                                       <<"param_type", Child(p, "param_type")>>,
                                       <<"data_type", Child(p, "data_type")>>,
                                       <<"optimizable_ind", Child(p, "optimizable_ind")>>>>,
                                     HasText)]

transformParametersToFixed(originalParams, optimizedValues) ==
    [i \in 1..Len(originalParams) |-> RenderBlock(originalParams[i], optimizedValues)]

\* the blocks of the text between <parameters> and </parameters>
BlocksOf(inner) ==
    IF \E i \in 1..Len(inner) : inner[i][1] = "params"
    THEN inner[CHOOSE i \in 1..Len(inner) : inner[i][1] = "params"][2]
    ELSE <<>>

RECURSIVE ReplaceAllSections(_, _)
\* regexp (?s)<parameters>(.*?)</parameters>, ReplaceAllString: every
\* section of the text, from left to right, becomes the section given
ReplaceAllSections(xml, section) ==
    LET start == Index(xml, Open("parameters"))
        rest == SubSeq(xml, start + 1, Len(xml))
        end == Index(rest, Close("parameters"))
    IN  IF start = 0 \/ end = 0 THEN xml
        ELSE SubSeq(xml, 1, start - 1) \o section
             \o ReplaceAllSections(SubSeq(rest, end + 1, Len(rest)), section)

\* replaceParametersWithFixed: the blocks of the first section are
\* transformed, and the result is written in place of every section
replaceParametersWithFixed(xml, optimizedValues) ==
    LET start == Index(xml, Open("parameters"))
        rest == SubSeq(xml, start + 1, Len(xml))
        end == Index(rest, Close("parameters"))
    IN  IF start = 0 \/ end = 0 THEN Failed
        ELSE ReplaceAllSections(xml,
                 <<Open("parameters"),
                   Params(transformParametersToFixed(BlocksOf(SubSeq(rest, 1, end - 1)),
                                                     optimizedValues)),
                   Close("parameters")>>)

\* replaceXMLTag(jobXML, "task_type", x): the task type element is one token
replaceTaskType(xml, x) ==
    IF \E i \in 1..Len(xml) : xml[i][1] = "task"
    THEN [xml EXCEPT ![CHOOSE i \in 1..Len(xml) :
                          xml[i][1] = "task" /\ \A j \in 1..(i - 1) : xml[j][1] # "task"]
                     = TaskType(x)]
    ELSE xml

\* fmt.Sprintf("%s_%s_%s_WFO_RETEST_RUN-%d_OS-%d.%s", ...)
RetestName(jobID, symbol, timeframe, totalRuns, osPercentage, ext) ==
    [jobID |-> jobID, symbol |-> symbol, timeframe |-> timeframe, task |-> "WFO_RETEST",
     runs |-> totalRuns, os |-> osPercentage, ext |-> ext]

\* createWFORetestJobElement: startDate, endDate and run stay as in the
\* template
createWFORetestJobElement(originalXML, result, jobID, symbol, timeframe, totalRuns, osPercentage) ==
    replaceParametersWithFixed(
        replaceXMLTag(replaceTaskType(originalXML, "WFO_RETEST"), "filename",
            <<FileName(RetestName(jobID, symbol, timeframe, totalRuns, osPercentage, "job"))>>),
        result.ParametersJSON)

RECURSIVE JobMatches(_)
\* regexp (?s)<Job>(.*?)</Job>, FindAllStringSubmatch: the inner texts
JobMatches(s) ==
    LET i == Index(s, Open("Job"))
        rest == SubSeq(s, i + 1, Len(s))
        j == Index(rest, Close("Job"))
    IN  IF i = 0 \/ j = 0 THEN <<>>
        ELSE <<SubSeq(rest, 1, j - 1)>> \o JobMatches(SubSeq(rest, j + 1, Len(rest)))

Least(a, b) == IF a < b THEN a ELSE b

\* buildWFORetestXML
buildWFORetestXML(originalXML, optResults, jobID, symbol, timeframe, totalRuns, osPercentage) ==
    LET jobMatches == JobMatches(originalXML)
        limit == Least(Len(optResults), Len(jobMatches))
        jobElements == [i \in 1..limit |->
            createWFORetestJobElement(<<Open("Job")>> \o jobMatches[i] \o <<Close("Job")>>,
                optResults[i], jobID, symbol, timeframe, totalRuns, osPercentage)]
    IN  IF limit = 0 THEN Failed
        ELSE IF \E i \in 1..limit : jobElements[i] = Failed THEN Failed
        ELSE RootWrap(Join(jobElements))

\* validateDateFormat: regexp ^\d{4}-\d{2}-\d{2}$, whatever the month and
\* the day
IsDateForm(value) ==
    /\ Len(value) = 1
    /\ value[1][1] = "date"
    /\ value[1][2][1] \in 0..9999
    /\ value[1][2][2] \in 0..99
    /\ value[1][2][3] \in 0..99

\* validateOptResults returns nil
validateOptResults(optResults) ==
    /\ Len(optResults) > 0
    /\ \A i \in 1..Len(optResults) :
          /\ optResults[i].ISStartDate # <<>> /\ optResults[i].ISEndDate # <<>>
          /\ IsDateForm(optResults[i].ISStartDate)
          /\ IsDateForm(optResults[i].ISEndDate)
          /\ optResults[i].OSStartDate # <<>> => IsDateForm(optResults[i].OSStartDate)
          /\ optResults[i].OSEndDate # <<>> => IsDateForm(optResults[i].OSEndDate)

\* a row has both OS dates
HasOS(r) == r.OSStartDate # <<>> /\ r.OSEndDate # <<>>

\* calculateWFORetestDateRanges returns no error: calculateDateBuffer parses
\* the IS dates of every row, and its OS dates when it has both
calculateWFORetestDateRanges(optResults) ==
    \A i \in 1..Len(optResults) :
        /\ IsDate(optResults[i].ISStartDate) /\ IsDate(optResults[i].ISEndDate)
        /\ HasOS(optResults[i])
               => IsDate(optResults[i].OSStartDate) /\ IsDate(optResults[i].OSEndDate)

\* validateDateRanges returns nil, on rows whose dates parse
validateDateRanges(optResults) ==
    \A i \in 1..Len(optResults) :
        LET r == optResults[i]
        IN  /\ parseDate(r.ISEndDate) >= parseDate(r.ISStartDate)
            /\ HasOS(r) => /\ parseDate(r.OSEndDate) >= parseDate(r.OSStartDate)
                           /\ parseDate(r.OSStartDate) >= parseDate(r.ISEndDate)

\* calculateOSPercentage, from the first row: the durations are
\* Sub(...).Hours() / 24, the result int((osDuration / totalDuration) * 100)
\* calculateOSPercentage: int((osDuration / totalDuration) * 100), 0 when
\* totalDuration is 0
PercentageOf(osDuration, totalDuration) ==
    IF totalDuration.m = <<>> THEN 0
    ELSE FTrunc(FMul(FDiv(osDuration, totalDuration), FOfInt(100)))

PercentageOver(isDuration, osDuration) ==
    PercentageOf(osDuration, FAdd(isDuration, osDuration))

calculateOSPercentage(optResults) ==
    IF Len(optResults) = 0 THEN 0
    ELSE IF optResults[1].OSStartDate = <<>> \/ optResults[1].OSEndDate = <<>> THEN 0
    ELSE PercentageOver(
             SubDays(parseDate(optResults[1].ISEndDate) - parseDate(optResults[1].ISStartDate)),
             SubDays(parseDate(optResults[1].OSEndDate) - parseDate(optResults[1].OSStartDate)))

\* strings.HasPrefix, strings.HasSuffix and strings.Contains on strings
HasPrefix(s, prefix) == Len(s) >= Len(prefix) /\ SubSeq(s, 1, Len(prefix)) = prefix

HasSuffix(s, suffix) ==
    Len(s) >= Len(suffix) /\ SubSeq(s, Len(s) - Len(suffix) + 1, Len(s)) = suffix

HasSubstring(s, sub) ==
    \E i \in 1..(Len(s) - Len(sub) + 1) : SubSeq(s, i, i + Len(sub) - 1) = sub

\* strings.Contains(token, "<job"): an opening tag whose name begins with
\* job, or a piece of text that holds <job
HoldsLowerJob(tok) ==
    \/ tok[1] = "open" /\ HasPrefix(tok[2], "job")
    \/ tok[1] = "text" /\ HasSubstring(tok[2], "<job")

\* locateWFOJobFile: the checks on the text read from jobs/Completed,
\* hasJobTag and hasRequiredElements
ValidJobXML(xml) ==
    /\ \/ Contains(xml, Open("Job"))
       \/ \E i \in 1..Len(xml) : HoldsLowerJob(xml[i])
    /\ Contains(xml, Open("Id"))
    /\ Contains(xml, Open("Symbol"))
    /\ Contains(xml, Open("Timeframe"))

\* triggerWFORetestGeneration: fmt.Sprintf("%s_@ES_60_WFO_Results.opt", jobID)
ReconstructedName(jobID) == jobID \o "_@ES_60_WFO_Results.opt"

\* filepath.Ext of a name without path separators: from its last dot
Ext(fileName) ==
    LET dots == {i \in 1..Len(fileName) : SubSeq(fileName, i, i) = "."}
    IN  IF dots = {} THEN ""
        ELSE SubSeq(fileName, CHOOSE i \in dots : \A k \in dots : k <= i, Len(fileName))

\* strings.TrimSuffix
TrimSuffix(s, suffix) ==
    IF HasSuffix(s, suffix) THEN SubSeq(s, 1, Len(s) - Len(suffix)) ELSE s

RECURSIVE SplitOn(_, _)
\* strings.Split(s, sep) for a separator of one character
SplitOn(s, sep) ==
    LET at == {i \in 1..Len(s) : SubSeq(s, i, i) = sep}
        first == CHOOSE i \in at : \A k \in at : i <= k
    IN  IF at = {} THEN <<s>>
        ELSE <<SubSeq(s, 1, first - 1)>> \o SplitOn(SubSeq(s, first + 1, Len(s)), sep)

\* OptUploadManager.extractMetadata: err for a name of fewer than three
\* parts, the symbol with @ put before it when it does not begin with @
extractMetadata(fileName) ==
    LET parts == SplitOn(TrimSuffix(fileName, Ext(fileName)), "_")
    IN  IF Len(parts) < 3
        THEN [jobID |-> "", symbol |-> "", timeframe |-> "", err |-> TRUE]
        ELSE [jobID |-> parts[1],
              symbol |-> IF HasPrefix(parts[2], "@") THEN parts[2] ELSE "@" \o parts[2],
              timeframe |-> parts[3],
              err |-> FALSE]

\* processWFORetestGeneration up to its XML (validateOptResults, then
\* generateWFORetestXML), with the symbol and timeframe
\* triggerWFORetestGeneration hands over; the slice of extractXMLTagValue
\* panics on an oos_percent closing tag that comes first
RetestXML(jobID, symbol, timeframe, optResults, completed) ==
    IF ~validateOptResults(optResults) THEN Failed
    ELSE IF <<symbol, timeframe>> \notin DOMAIN completed THEN Failed
    ELSE IF ~ValidJobXML(completed[<<symbol, timeframe>>]) THEN Failed
    ELSE IF ~calculateWFORetestDateRanges(optResults) THEN Failed
    ELSE IF ~validateDateRanges(optResults) THEN Failed
    ELSE LET originalXML == completed[<<symbol, timeframe>>]
             oosPercentStr == extractXMLTagValue(originalXML, "oos_percent")
             osPercentage == IF IsFloat(oosPercentStr) THEN ParseFloat(oosPercentStr)
                             ELSE calculateOSPercentage(optResults)
         IN  IF oosPercentStr = Panic THEN Panic
             ELSE buildWFORetestXML(originalXML, optResults, jobID, symbol, timeframe,
                                    Len(optResults), osPercentage)

\* a descriptor the cloud sent for a symbol and timeframe: its job element
\* is named element, oosRuns and oosPercent are the texts it has for the
\* two walk-forward settings
SourceWith(element, symbol, timeframe, oosRuns, oosPercent, blocks) ==
    <<Open(element), Newline,
      Open("Id"), Text(JobID), Close("Id"), Newline,
      TaskType("WFO"), Newline,
      Open("Symbol"), Text(symbol), Close("Symbol"), Newline,
      Open("Timeframe"), Text(timeframe), Close("Timeframe"), Newline,
      Open("filename"), Text("wfo"), Close("filename"), Newline,
      Open("startDate"), Date(<<2007, 1, 1>>), Close("startDate"), Newline,
      Open("endDate"), Date(<<2013, 9, 8>>), Close("endDate"), Newline>>
    \o oosRuns \o oosPercent \o
    <<Open("parameters"), Params(blocks), Close("parameters"), Newline,
      Close(element)>>

\* the walk-forward descriptor the cloud sent for a symbol and timeframe
RetestSource(symbol, timeframe, runs, pct, blocks) ==
    SourceWith("Job", symbol, timeframe,
               <<Open("oos_runs"), Num(runs), Close("oos_runs"), Newline>>,
               <<Open("oos_percent"), Num(pct), Close("oos_percent"), Newline>>,
               blocks)

\* the parameter sections of the descriptors: two optimizable ranges and a
\* fixed parameter
ParamSections ==
    {<<[Name |-> "iFastMAPeriod",
        Children |-> <<<<"start", "10">>, <<"end", "50">>, <<"step", "5">>,
                       <<"value", "20">>, <<"param_type", "OptRange">>>>
                     \o dtA \o <<<<"optimizable_ind", "true">>>>],
       [Name |-> "sMode",
        Children |-> <<<<"value", "off">>, <<"param_type", "OptRange">>,
                       <<"data_type", dtB>>, <<"optimizable_ind", "true">>>>],
       [Name |-> "iStop",
        Children |-> <<<<"value", "7">>, <<"param_type", "Fixed">>,
                       <<"optimizable_ind", "false">>>>]>> :
        dtA \in {<<>>, <<<<"data_type", "int">>>>}, dtB \in {"string", "Boolean"}}

\* parameters_json of the row of run k, parsed
JsonKinds == {"all", "more", "fewer"}
FastValues == <<"25", "30", "35", "40", "45", "50">>
ModeValues == <<"m1", "m2", "m3", "m4", "m5", "m6">>
ParametersOf(kind, k) ==
    IF kind = "fewer" THEN [name \in {"iFastMAPeriod"} |-> FastValues[k]]
    ELSE [name \in {"iFastMAPeriod", "sMode"} \cup (IF kind = "more" THEN {"iSlowMAPeriod"} ELSE {}) |->
            IF name = "iFastMAPeriod" THEN FastValues[k]
            ELSE IF name = "sMode" THEN ModeValues[k] ELSE "75"]

\* the row the Engine writes for run k of a job of runs runs
RowOver(k, runs, kind, dr) ==
    [Run |-> k, ParametersJSON |-> ParametersOf(kind, k),
     ISStartDate |-> dr.ISStartDate, ISEndDate |-> dr.ISEndDate,
     OSStartDate |-> IF k = runs + 1 THEN <<>> ELSE dr.OSStartDate,
     OSEndDate |-> IF k = runs + 1 THEN <<>> ELSE dr.OSEndDate]

RowOf(k, runs, pct, kind) ==
    RowOver(k, runs, kind,
            calculateWFORuns(<<Date(<<2007, 1, 1>>)>>, <<Date(<<2013, 9, 8>>)>>, runs, pct)[k])

RetestSymbols == {"@ES", "@NQ"}
RetestTimeframes == {"60", "15"}

\* a row of an .opt file whose dates the Engine wrote
PlainRow(isStart, isEnd, osStart, osEnd) ==
    [Run |-> 1, ParametersJSON |-> ParametersOf("all", 1),
     ISStartDate |-> <<Date(isStart)>>, ISEndDate |-> <<Date(isEnd)>>,
     OSStartDate |-> <<Date(osStart)>>, OSEndDate |-> <<Date(osEnd)>>]

\* rows whose dates lie more than 2^63-1 nanoseconds apart
FarRows ==
    {<<PlainRow(<<1000, 1, 1>>, <<1410, 9, 9>>, <<1410, 9, 9>>, <<1547, 8, 2>>)>>,
     <<PlainRow(<<1000, 1, 1>>, <<1547, 8, 2>>, <<1547, 8, 2>>, <<1553, 1, 22>>)>>,
     <<PlainRow(<<1000, 1, 1>>, <<1005, 6, 24>>, <<1005, 6, 24>>, <<1553, 1, 22>>)>>,
     <<PlainRow(<<2007, 1, 1>>, <<2012, 3, 1>>, <<2012, 3, 2>>, <<2013, 9, 8>>)>>}

\* descriptors of @ES/60 that are not the plain walk-forward descriptor,
\* each with the rows of its .opt file: a job element written <job>; an
\* oos_percent closing tag before the opening one and no oos_runs; a job
\* without the walk-forward settings; oos_percent written 0.0; oos_runs 0
OtherSources ==
    {[form |-> "lower",
      xml |-> SourceWith("job", "@ES", "60",
                  <<Open("oos_runs"), Num(1), Close("oos_runs"), Newline>>,
                  <<Open("oos_percent"), Num(20), Close("oos_percent"), Newline>>,
                  blocks),
      rows |-> [k \in 1..2 |-> RowOf(k, 1, 20, "all")]] : blocks \in ParamSections}
    \cup
    {[form |-> "closing",
      xml |-> SourceWith("Job", "@ES", "60", <<>>,
                  <<Close("oos_percent"), Open("oos_percent"), Num(20), Newline>>,
                  blocks),
      rows |-> [k \in 1..2 |-> RowOf(k, 1, 20, "all")]] : blocks \in ParamSections}
    \cup
    {[form |-> "unset",
      xml |-> SourceWith("Job", "@ES", "60", <<>>, <<>>, blocks),
      rows |-> rows] : blocks \in ParamSections, rows \in FarRows}
    \cup
    {[form |-> "float",
      xml |-> SourceWith("Job", "@ES", "60",
                  <<Open("oos_runs"), Num(runs), Close("oos_runs"), Newline>>,
                  <<Open("oos_percent"), Text("0.0"), Close("oos_percent"), Newline>>,
                  blocks),
      rows |-> [k \in 1..(runs + 1) |-> RowOf(k, runs, 20, "all")]] :
        blocks \in ParamSections, runs \in 0..1}

\* parseOPTFile returns the rows of the .opt file of a walk-forward job;
\* jobs/Completed holds the descriptors in completed, as DownloadFile wrote
\* them
parseOPTFile(form, symbol, timeframe, optResults, completed) ==
    /\ retest.pc = "idle"
    /\ retest' = [retest EXCEPT
          !.pc = "parsed", !.form = form, !.symbol = symbol, !.timeframe = timeframe,
          !.optResults = optResults, !.completed = completed]
    /\ UNCHANGED <<pollerVars, watchVars, dlVars, optVars, expandVars, knobVars, packVars, lateVars>>

\* how processWFORetestGeneration goes on after its XML
PcAfterXML(xml) ==
    IF xml = Panic THEN "panic" ELSE IF xml = Failed THEN "failed" ELSE "built"

\* processWFORetestGeneration holds the XML generateWFORetestXML returned, or
\* its error
Generated(xml) == retest' = [retest EXCEPT !.xml = xml, !.pc = PcAfterXML(xml)]

\* triggerWFORetestGeneration up to generateWFORetestXML
generateWFORetestXML ==
    /\ retest.pc = "parsed"
    /\ LET meta == extractMetadata(ReconstructedName(JobID))
       IN  Generated(RetestXML(JobID, meta.symbol, meta.timeframe, retest.optResults,
                               retest.completed))
    /\ UNCHANGED <<pollerVars, watchVars, dlVars, optVars, expandVars, knobVars, packVars, lateVars>>

\* saveWFORetestXML: the .xml written to jobs/to_do and compressed beside it
saveWFORetestXML ==
    /\ retest.pc = "built"
    /\ LET meta == extractMetadata(ReconstructedName(JobID))
           totalRuns == Count(retest.xml, Open("Job"))
       IN  retest' = [retest EXCEPT
              !.pc = "saved",
              !.todo = {[name |-> RetestName(JobID, meta.symbol, meta.timeframe,
                                             totalRuns, SavedOSPercentage, ext),
                         content |-> retest.xml] : ext \in {"xml", "job"}}]
    /\ UNCHANGED <<pollerVars, watchVars, dlVars, optVars, expandVars, knobVars, packVars, lateVars>>

NextRetest ==
    \/ \E symbol \in RetestSymbols, timeframe \in RetestTimeframes,
          runs \in 1..MaxRuns, pct \in OOSPercents, blocks \in ParamSections,
          kind \in JsonKinds :
          \E n \in 1..(runs + 1),
             pairs \in SUBSET {<<symbol, timeframe>>, <<"@ES", "60">>} :
              parseOPTFile("plain", symbol, timeframe,
                  [k \in 1..n |-> RowOf(k, runs, pct, kind)],
                  [pr \in pairs |-> expand(RetestSource(pr[1], pr[2], runs, pct, blocks))])
    \/ \E other \in OtherSources :
          parseOPTFile(other.form, "@ES", "60", other.rows,
                       [pr \in {<<"@ES", "60">>} |-> expand(other.xml)])
    \/ generateWFORetestXML
    \/ saveWFORetestXML

SpecRetest == Init /\ [][NextRetest]_vars

\* the second-pass descriptor was built
RetestBuilt == retest.pc \in {"built", "saved"}

\* the second pass ran on a walk-forward descriptor of the plain form
PlainRetest == retest.form = "plain"

\* the job element the i-th element of the second pass was made from
TemplateOf(i) ==
    JobElementsOf(retest.completed[extractMetadata(ReconstructedName(JobID)).symbol,
                                   extractMetadata(ReconstructedName(JobID)).timeframe])[i]

\* the block of a name in a sequence of blocks
BlockNamed(blocks, name) == blocks[CHOOSE i \in 1..Len(blocks) : blocks[i].Name = name]

\* a parameter of the original that had param_type OptRange and
\* optimizable_ind true
WasOptimizable(p) ==
    Child(p, "param_type") = "OptRange" /\ Child(p, "optimizable_ind") = "true"

\* the block of job element i written for the original's block p is there,
\* with param_type Fixed, FixedString or FixedBool and optimizable_ind false
WrittenFixed(after, p) ==
    /\ \E a \in 1..Len(after) : after[a].Name = p.Name
    /\ Child(BlockNamed(after, p.Name), "param_type") \in {"Fixed", "FixedString", "FixedBool"}
    /\ Child(BlockNamed(after, p.Name), "optimizable_ind") = "false"

\* C25 as stated: in every job element of a second-pass descriptor, each
\* parameter that had param_type OptRange and optimizable_ind true in the
\* original has param_type Fixed, FixedString or FixedBool and
\* optimizable_ind false, and carries the optimized value parameters_json of
\* the row gives it.
C25_ParametersFixed ==
    RetestBuilt =>
        LET els == JobElementsOf(retest.xml)
        IN  \A i \in 1..Len(els) :
              LET before == BlocksOf(TemplateOf(i))
                  after == BlocksOf(els[i])
                  json == retest.optResults[i].ParametersJSON
              IN  \A b \in 1..Len(before) :
                    WasOptimizable(before[b])
                    => /\ WrittenFixed(after, before[b])
                       /\ before[b].Name \in DOMAIN json
                       /\ Child(BlockNamed(after, before[b].Name), "value")
                              = json[before[b].Name]

\* C25, amended: in every job element of a second-pass descriptor, each
\* parameter that had param_type OptRange and optimizable_ind true in the
\* original has param_type Fixed, FixedString or FixedBool and
\* optimizable_ind false; its value is the one parameters_json of the row
\* gives it when parameters_json names the parameter, and the value the
\* original had when it does not.
C25_ParametersFixedOrKept ==
    RetestBuilt =>
        LET els == JobElementsOf(retest.xml)
        IN  \A i \in 1..Len(els) :
              LET before == BlocksOf(TemplateOf(i))
                  after == BlocksOf(els[i])
                  json == retest.optResults[i].ParametersJSON
              IN  \A b \in 1..Len(before) :
                    WasOptimizable(before[b])
                    => /\ WrittenFixed(after, before[b])
                       /\ Child(BlockNamed(after, before[b].Name), "value")
                              = IF before[b].Name \in DOMAIN json
                                THEN json[before[b].Name]
                                ELSE Child(before[b], "value")

\* a descriptor of three runs saved from rows whose parameters_json names
\* iFastMAPeriod only: in the element of run 3 iFastMAPeriod has the value
\* of row 3, and sMode is fixed with the value the original had
C25_Witness ==
    /\ retest.pc = "saved"
    /\ Len(JobElementsOf(retest.xml)) = 3
    /\ DOMAIN retest.optResults[3].ParametersJSON = {"iFastMAPeriod"}
    /\ LET after == BlocksOf(JobElementsOf(retest.xml)[3])
       IN  /\ Child(BlockNamed(after, "iFastMAPeriod"), "value") = FastValues[3]
           /\ Child(BlockNamed(after, "sMode"), "param_type") = "FixedBool"
           /\ Child(BlockNamed(after, "sMode"), "value") = "off"

\* C26: the second-pass descriptor has one job element per row of the
\* result, with run tags 1..n; the element of run 1 runs from the IS start
\* to the OS end of row 1, the element of a run k >= 2 from the OS start to
\* the OS end of row k.
C26_RunSpans ==
    (RetestBuilt /\ PlainRetest) =>
        LET els == JobElementsOf(retest.xml)
            rows == retest.optResults
        IN  /\ Len(els) = Len(rows)
            /\ \A k \in 1..Len(els) :
                  /\ extractXMLTagValue(els[k], "run") = <<Num(k)>>
                  /\ rows[k].OSEndDate # <<>> =>
                        /\ extractXMLTagValue(els[k], "startDate") =
                               IF k = 1 THEN rows[k].ISStartDate ELSE rows[k].OSStartDate
                        /\ extractXMLTagValue(els[k], "endDate") = rows[k].OSEndDate

\* C27: when the original descriptor of the file's own job id, symbol and
\* timeframe is in jobs/Completed, the second pass of an .opt file of n rows
\* ends with a .job in jobs/to_do that holds n job elements and is named
\* {jobId}_{symbol}_{timeframe}_WFO_RETEST_RUN-n_OS-P, P the oos_percent of
\* the job, the filename tag of every element being that name.
C27_RetestFile ==
    (/\ retest.pc \in {"saved", "failed"}
     /\ PlainRetest
     /\ <<retest.symbol, retest.timeframe>> \in DOMAIN retest.completed)
    => LET own == retest.completed[retest.symbol, retest.timeframe]
           name == RetestName(JobID, retest.symbol, retest.timeframe,
                              Len(retest.optResults),
                              extractXMLTagValue(own, "oos_percent")[1][2], "job")
       IN  \E f \in retest.todo :
              /\ f.name = name
              /\ Count(f.content, Open("Job")) = Len(retest.optResults)
              /\ \A i \in 1..Len(JobElementsOf(f.content)) :
                     extractXMLTagValue(JobElementsOf(f.content)[i], "filename")
                         = <<FileName(name)>>

(***************************************************************************)
(* The move functions of the FileManager (downloader.go:252-289, 341-350,   *)
(* 411-420) called on folders where the name may be at the destination      *)
(* already.                                                                 *)
(***************************************************************************)
\* os.Rename: done, refused for a reason of its own, or refused because the
\* system does not replace the file at the destination (it is read-only or
\* open, or the platform does not overwrite)
MoveOutcomes == {"ok", "failed", "denied"}

\* os.Rename(fromPath, toPath) returns an error
RenameFails(fs, name, from, to, o) ==
    \/ name \notin fs[from]
    \/ o = "failed"
    \/ o = "denied" /\ name \in fs[to]

\* the folders after os.Rename(fromPath, toPath); nothing is removed before
\* the call
OsRename(fs, name, from, to, o) ==
    IF RenameFails(fs, name, from, to, o) THEN fs
    ELSE [fs EXCEPT ![from] = @ \ {name}, ![to] = @ \cup {name}]

\* what a move function called on fs returns and leaves
Moved(fn, fs, name, from, to, o) ==
    [fn |-> fn, hadSource |-> name \in fs[from], hadDest |-> name \in fs[to], o |-> o,
     err |-> RenameFails(fs, name, from, to, o),
     inFrom |-> name \in OsRename(fs, name, from, to, o)[from],
     inTo |-> name \in OsRename(fs, name, from, to, o)[to]]

JobFolderNames == {"to_do", "in_progress", "done", "error"}

\* FileManager.MoveJobFile(fileName, fromStatus, toStatus), its error kept
CallMoveJobFile(j, from, to, o) ==
    /\ from # to
    /\ files' = OsRename(files, JobFile(j), from, to, o)
    /\ moveCall' = Moved("MoveJobFile", files, JobFile(j), from, to, o)
    /\ UNCHANGED <<todoReadable, schedVars, histVars, burstVars, guiVars, watchVars,
                   dlVars, optVars, expandVars, knobVars, packVars, retestVars, detect, written, batch>>

\* FileManager.MoveOptFile(fileName), its error kept
CallMoveOptFile(f, o) ==
    /\ optFolders' = OsRename(optFolders, f, "in", "done", o)
    /\ moveCall' = Moved("MoveOptFile", optFolders, f, "in", "done", o)
    /\ UNCHANGED <<uploadEventChan, optWatch, scans, dsum, optResult, repResult,
                   uploads, managers, pollerVars, watchVars, dlVars, expandVars, knobVars,
                   packVars, retestVars, detect, written, batch>>

\* the moves on job folders that hold any of NFolderJobs descriptors
InitMove ==
    \E fs \in [JobFolderNames -> SUBSET {JobFile(j) : j \in 1..NFolderJobs}] :
        /\ InitBesidesManager(DefaultBurstPolling, DefaultExponentialBackoff, fs)
        /\ batch = NewDownloadManager(MaxConcurrent, RetryAttempts)

NextMove ==
    \/ \E j \in 1..NFolderJobs, from \in JobFolderNames, to \in JobFolderNames,
          o \in MoveOutcomes : CallMoveJobFile(j, from, to, o)
    \/ \E f \in OptFiles : EngineWritesOpt(f)
    \/ \E f \in OptFiles, o \in MoveOutcomes : CallMoveOptFile(f, o)

SpecMove == InitMove /\ [][NextMove]_vars

\* C31: a move of a file that is in its source folder, with a file of the
\* same name at the destination, returns no error unless the rename fails
\* for a reason of its own; afterwards the file is in the destination
\* folder and not in the source folder.
C31_MoveOverDestination ==
    (moveCall.hadSource /\ moveCall.hadDest /\ moveCall.o # "failed")
    => (~moveCall.err /\ moveCall.inTo /\ ~moveCall.inFrom)

(***************************************************************************)
(* A failed regeneration inside downloadJob (downloader.go:160-163).        *)
(***************************************************************************)
\* C32: a pass of downloadJob whose fetched text has empty data streams and
\* whose regeneration fails does not end in success, and when the call ends
\* with it no file of the job is in jobs/to_do.
C32_FailedRegenerationFails ==
    \A g \in Tried :
        (/\ Ended(tries[g])
         /\ tries[g].text = "empty"
         /\ tries[g].fix \in {"failed", "create", "write"})
        => (~tries[g].success /\ ToDoOf(g[2]) = {})

(***************************************************************************)
(* The expander on texts whose walk-forward values do not parse             *)
(* (api.go:610-659, 819-831).                                               *)
(***************************************************************************)
\* the text is handed to processWFOJob
EntersWFO(xml) ==
    /\ ~(Contains(xml, TaskType("MM")) /\ Contains(xml, Open("symbols")))
    /\ ~(Contains(xml, TaskType("MTF")) /\ Contains(xml, Open("timeframes")))
    /\ \/ Contains(xml, TaskType("WFO"))
       \/ Contains(xml, TaskType("WFM"))
       \/ Contains(xml, TaskType("DWFM"))
    /\ Contains(xml, Open("oos_runs"))

\* C33: for every descriptor text read the expander returns a text, and a
\* walk-forward text whose values are missing or do not parse is written as
\* the single-job wrap of the unchanged text.
C33_ExpanderTotal ==
    (expandPc \in {"written", "panic"}) =>
        /\ expandPc = "written"
        /\ finalContent # Panic
        /\ EntersWFO(xmlContent) => finalContent = RootWrap(xmlContent)

(***************************************************************************)
(* The walk-forward check of an uploaded .opt file whose name holds _WFO_,  *)
(* _WFM_ or _DWFM_: checkAndTriggerCombinedWFO (csv_uploader.go:509-622)    *)
(* with parseCSVContent (csv_uploader.go:797-920).                          *)
(***************************************************************************)
\* APIClient.GetJobByID: the task type of the record, or no record
LookupOutcomes == {"WFO", "WFM", "DWFM", "OPT", "missing"}

\* the header columns parseCSVContent looks for, and the rows with a run
\* number and a parameters JSON
WFOColumns == {"run", "parameters_json"}
MaxRows == 2

\* parseCSVContent: if jobTaskType != "WFO" && jobTaskType != "WFM"
NotWalkForward(jobTaskType) == jobTaskType \notin {"WFO", "WFM"}

\* parseCSVContent: isWFO
parseCSVContent(columns, rows, jobTaskType) ==
    IF NotWalkForward(jobTaskType) THEN FALSE
    ELSE IF "run" \notin columns \/ "parameters_json" \notin columns THEN FALSE
    ELSE rows > 0

\* checkAndTriggerCombinedWFO: the job looked up; without a record the task
\* type is the placeholder UNKNOWN
GetJobByID(lookup, columns, rows) ==
    /\ detect.pc = "idle"
    /\ detect' = [NoDetect EXCEPT !.pc = "looked", !.lookup = lookup,
                      !.TaskType = IF lookup = "missing" THEN "UNKNOWN" ELSE lookup,
                      !.columns = columns, !.rows = rows]
    /\ UNCHANGED <<pollerVars, watchVars, dlVars, optVars, expandVars, knobVars,
                   packVars, retestVars, moveCall, written, batch>>

\* checkAndTriggerCombinedWFO: parseOPTFile(filePath, job.TaskType)
ParseForWFO ==
    /\ detect.pc = "looked"
    /\ detect' = [detect EXCEPT !.pc = "parsed",
                      !.isWFO = parseCSVContent(detect.columns, detect.rows, detect.TaskType)]
    /\ UNCHANGED <<pollerVars, watchVars, dlVars, optVars, expandVars, knobVars,
                   packVars, retestVars, moveCall, written, batch>>

\* the rows parseOPTFile returned for the file, and the descriptor of the
\* job as DownloadFile wrote it
DetectRows(n) == [k \in 1..n |-> RowOf(k, MaxRows - 1, 20, "all")]
DetectSource == RetestSource("@ES", "60", MaxRows - 1, 20, CHOOSE b \in ParamSections : TRUE)

\* the descriptors of the job the cloud may have sent: the plain one, and one
\* whose oos_percent closing tag comes first
DetectSources ==
    {DetectSource,
     SourceWith("Job", "@ES", "60", <<>>,
                <<Close("oos_percent"), Open("oos_percent"), Num(20), Newline>>,
                CHOOSE b \in ParamSections : TRUE)}

\* triggerWFORetestGeneration returns an error before the generation
TriggerRefused(jobID, optResults) ==
    \/ jobID = ""
    \/ Len(optResults) = 0
    \/ extractMetadata(ReconstructedName(jobID)).err

\* saveWFORetestXML: both files written, or an error on the way
SaveOutcomes == {"ok", "persist"}

\* the names of the second-pass files saveWFORetestXML writes for the job
SavedNames(jobID) == RetestFiles(<<"opt", jobID>>)

\* what checkAndTriggerCombinedWFO leaves once triggerWFORetestGeneration
\* has refused, or has built xml and saved it with the outcome save; when
\* generateWFORetestXML panics instead of returning xml the process ends
\* there and checkAndTriggerCombinedWFO returns nothing
AfterTrigger(completed, save, left, optResults, meta, refused, xml) ==
    LET built == PcAfterXML(xml) = "built"
        panicked == detect.isWFO /\ ~refused /\ PcAfterXML(xml) = "panic"
    IN  /\ left \in (IF ~detect.isWFO \/ refused \/ ~built THEN {{}}
                     ELSE IF save = "ok" THEN {SavedNames(JobID)}
                     ELSE SUBSET SavedNames(JobID))
        /\ detect' = [detect EXCEPT
               !.pc = IF panicked THEN "panic" ELSE "done",
               !.triggered = detect.isWFO,
               !.returned = IF panicked THEN "none"
                            ELSE IF detect.isWFO /\ refused THEN "error" ELSE "nil"]
        /\ retest' =
               IF ~detect.isWFO \/ refused THEN retest
               ELSE [NoRetest EXCEPT
                       !.form = "plain", !.symbol = "@ES", !.timeframe = "60",
                       !.optResults = optResults, !.completed = completed,
                       !.xml = xml,
                       !.pc = IF ~built THEN PcAfterXML(xml)
                              ELSE IF save = "ok" THEN "saved" ELSE "failed",
                       !.todo = IF built /\ save = "ok"
                                THEN {[name |-> RetestName(JobID, meta.symbol,
                                                   meta.timeframe,
                                                   Count(xml, Open("Job")),
                                                   SavedOSPercentage, ext),
                                       content |-> xml] : ext \in {"xml", "job"}}
                                ELSE {}]
        /\ files' = [files EXCEPT !["to_do"] = @ \cup left]

\* triggerWFORetestGeneration(jobID, optResults), meta being what
\* extractMetadata returned for the name it rebuilds
Trigger(completed, save, left, optResults, meta) ==
    AfterTrigger(completed, save, left, optResults, meta,
                 TriggerRefused(JobID, optResults),
                 RetestXML(JobID, meta.symbol, meta.timeframe, optResults, completed))

\* checkAndTriggerCombinedWFO: if !isWFO return nil, else
\* triggerWFORetestGeneration, which runs the second pass to its end or to
\* its panic: extractMetadata on the name it rebuilds, then
\* processWFORetestGenerationWithFallback (validateOptResults,
\* generateWFORetestXML, saveWFORetestXML), whose error is not returned
TriggerOrSkip(completed, save, left) ==
    /\ detect.pc = "parsed"
    /\ ~Crashed
    /\ Trigger(completed, save, left, DetectRows(detect.rows),
               extractMetadata(ReconstructedName(JobID)))
    /\ UNCHANGED <<todoReadable, schedVars, histVars, burstVars, guiVars, watchVars,
                   dlVars, optVars, expandVars, knobVars, packVars, moveCall, written,
                   batch>>

\* the runtime prints the panic of the second pass and ends the process
DetectPanicExits ==
    /\ detect.pc = "panic"
    /\ detect' = [detect EXCEPT !.pc = "dead"]
    /\ UNCHANGED <<pollerVars, watchVars, dlVars, optVars, expandVars, knobVars,
                   packVars, retestVars, moveCall, written, batch>>

\* the next uploaded .opt file
NextOptFile ==
    /\ detect.pc = "done"
    /\ detect' = NoDetect
    /\ UNCHANGED <<pollerVars, watchVars, dlVars, optVars, expandVars, knobVars,
                   packVars, retestVars, moveCall, written, batch>>

NextDetect ==
    \/ \E lookup \in LookupOutcomes, columns \in SUBSET WFOColumns, rows \in 0..MaxRows :
          GetJobByID(lookup, columns, rows)
    \/ ParseForWFO
    \/ \E source \in DetectSources, pairs \in SUBSET {<<"@ES", "60">>},
          save \in SaveOutcomes, left \in SUBSET SavedNames(JobID) :
          TriggerOrSkip([pr \in pairs |-> expand(source)], save, left)
    \/ DetectPanicExits
    \/ NextOptFile

SpecDetect == Init /\ [][NextDetect]_vars

\* C34: when the job record is missing, the check goes by the content of
\* the .opt file: a file with the run and parameters columns and at least
\* one row starts the second pass; it is skipped unseen only for a known
\* task type other than WFO and WFM.
C34_UnknownGoesByContent ==
    (detect.pc = "done" /\ detect.lookup = "missing")
        => (detect.triggered <=> (detect.columns = WFOColumns /\ detect.rows > 0))

(***************************************************************************)
(* A file the Engine writes piece by piece, and the loop that reads it:     *)
(* a .csv in results/to_do (processCSVFiles, csv_uploader.go:107-128), a    *)
(* .opt in opt/in (processOptFiles, csv_uploader.go:277-294), or a          *)
(* *_trades.csv in results (the completion monitor,                         *)
(* wfo_completion_handler.go:64-118 with isFileComplete, 128-144).          *)
(***************************************************************************)
FileKinds == {"csv", "opt", "trades"}
MaxPieces == 4

\* the Engine creates the file
EngineCreates(kind) ==
    /\ written.kind = "none"
    /\ written' = [NoFile EXCEPT !.kind = kind]
    /\ UNCHANGED <<pollerVars, watchVars, dlVars, optVars, expandVars, knobVars,
                   packVars, retestVars, moveCall, detect, batch>>

\* the Engine writes one more piece
EngineAppends ==
    /\ written.kind # "none" /\ ~written.closed
    /\ written.size < MaxPieces
    /\ written' = [written EXCEPT !.size = @ + 1]
    /\ UNCHANGED <<pollerVars, watchVars, dlVars, optVars, expandVars, knobVars,
                   packVars, retestVars, moveCall, detect, batch>>

\* the Engine closes the file
EngineCloses ==
    /\ written.kind # "none" /\ ~written.closed
    /\ written' = [written EXCEPT !.closed = TRUE]
    /\ UNCHANGED <<pollerVars, watchVars, dlVars, optVars, expandVars, knobVars,
                   packVars, retestVars, moveCall, detect, batch>>

\* processCSVFiles, processOptFiles: every file listed is uploaded at once;
\* read is what the upload sends
WatcherUploads ==
    /\ written.kind \in {"csv", "opt"} /\ written.by = "none"
    /\ written' = [written EXCEPT !.by = "watcher", !.read = written.size]
    /\ UNCHANGED <<pollerVars, watchVars, dlVars, optVars, expandVars, knobVars,
                   packVars, retestVars, moveCall, detect, batch>>

\* isFileComplete: info1, then time.Sleep(2 * time.Second)
FirstStat ==
    /\ written.kind = "trades" /\ written.by = "none" /\ written.stat1 = -1
    /\ written' = [written EXCEPT !.stat1 = written.size]
    /\ UNCHANGED <<pollerVars, watchVars, dlVars, optVars, expandVars, knobVars,
                   packVars, retestVars, moveCall, detect, batch>>

\* isFileComplete: info2 and the comparison; the file is processed when the
\* sizes are equal and skipped until the next scan when they are not
SecondStat ==
    /\ written.kind = "trades" /\ written.by = "none" /\ written.stat1 # -1
    /\ written' = IF written.stat1 = written.size
                  THEN [written EXCEPT !.by = "monitor", !.read = written.size,
                                       !.equalSeen = TRUE, !.stat1 = -1]
                  ELSE [written EXCEPT !.stat1 = -1]
    /\ UNCHANGED <<pollerVars, watchVars, dlVars, optVars, expandVars, knobVars,
                   packVars, retestVars, moveCall, detect, batch>>

\* the file is moved away once closed and read; the next file
NextWrittenFile ==
    /\ written.by # "none" /\ written.closed
    /\ written' = NoFile
    /\ UNCHANGED <<pollerVars, watchVars, dlVars, optVars, expandVars, knobVars,
                   packVars, retestVars, moveCall, detect, batch>>

NextStable ==
    \/ \E kind \in FileKinds : EngineCreates(kind)
    \/ EngineAppends
    \/ EngineCloses
    \/ WatcherUploads
    \/ FirstStat
    \/ SecondStat
    \/ NextWrittenFile

SpecStable == Init /\ [][NextStable]_vars

\* C35: a file is read by a watcher or by the completion monitor only after
\* two observations of its size, 2 s apart, were equal.
C35_ReadOnlyWhenStable == written.by # "none" => written.equalSeen

(***************************************************************************)
(* Control loops and monitor loops across restarts (downloader.go:829-881,  *)
(* 907-971; csv_uploader.go:54-104).                                        *)
(***************************************************************************)
\* monitoring stopped and started again, with the watchers it starts and
\* stops and whose loops see their stop channel closed before a tick, no
\* upload event and a cloud that holds no job
NextRestart ==
    \/ onStartDaemon
    \/ onStopDaemon
    \/ onLogout
    \/ SessionStep
    \/ \E d \in 1..MaxStarts :
           \/ DaemonLoop(d)
           \/ DaemonPoll(d, 0, {}) /\ (totalPolls < RestartPolls \/ daemons'[d].pc = "backoff")
           \/ BackoffDone(d)
           \/ DaemonMetricsRead(d)
           \/ DaemonMetrics(d)
           \/ DaemonCalcRead(d)
           \/ DaemonCalc(d)
           \/ DaemonSelect(d)
           \/ WaitTimeout(d)
           \/ WaitStop(d)
    \/ \E m \in 1..MaxWatchStarts : monitorFolder(m)
    \/ \E w \in 1..MaxOptStarts : monitorOptFolder(w)

SpecRestart == Init /\ [][NextRestart]_vars

\* C36: once monitoring was stopped or logged out and started again, no
\* control loop of an earlier start begins a poll: at most one loop polls.
C36_OldLoopNeverPolls ==
    [][\A d \in 1..MaxStarts :
          d < stopCh => ~(daemons[d].pc # "poll" /\ daemons'[d].pc = "poll")]_vars

\* C37: once a watcher was stopped and started again, no monitor loop of an
\* earlier Start begins a scan, and no loop begins a scan while the running
\* flag is not set.
C37_OldMonitorNeverScans ==
    [][\A m \in 1..MaxWatchStarts :
          (m < watchStopCh \/ ~isRunning)
              => ~(monitors[m].pc = "select" /\ monitors'[m].pc = "scan")]_vars

(***************************************************************************)
(* Uploads repeated by a later tick (csv_uploader.go:277-294, 350-413).     *)
(***************************************************************************)
\* C38: a .opt file the cloud has accepted, and whose move to opt/done then
\* failed, is not uploaded again by a later tick.
C38_UploadedOnce ==
    [][\A w \in 1..MaxOptStarts, o \in UploadOutcomes :
          (uploadOptFile(w, o) /\ o = "ok")
              => LET f == FirstOf(optWatch[w].todo)
                 IN  ~(optResult[f].upload = "ok" /\ optResult[f].moved = "failed")]_vars

\* the parameter-optimization watcher started once and the scans it starts,
\* one after each uploaded .opt file, on summaries the Engine writes once
\* and .opt files whose second pass saves no descriptor
NextScans ==
    \/ \E f \in OptFiles : EngineWritesOpt(f)
    \/ \E r \in RepFiles : Holding(optFolders, r) = {} /\ EngineWritesRep(r)
    \/ managers["opt"].stopCh = 0 /\ OptStart
    \/ \E w \in 1..MaxOptStarts : processOptFiles(w)
    \/ \E w \in 1..MaxOptStarts, o \in UploadOutcomes : uploadOptFile(w, o)
    \/ \E w \in 1..MaxOptStarts : PublishOptEvent(w)
    \/ \E w \in 1..MaxOptStarts, o \in WFOOutcomes \ {"ok", "persist"},
          r \in RenameOutcomes : finishOptFile(w, o, r, {})
    \/ \E w \in 1..MaxOptStarts : WatcherPanicExits(w)
    \/ \E s \in 1..MaxScans : scanList(s)
    \/ \E s \in 1..MaxScans, row \in RowOutcomes : ScanWait(s, row)
    \/ \E s \in 1..MaxScans, o \in SummaryUploadOutcomes : ScanUpload(s, o)
    \/ \E s \in 1..MaxScans, r \in RenameOutcomes : ScanMove(s, r)

SpecScans == Init /\ [][NextScans]_vars

\* C39: with several scans alive, no scan uploads a *_Daily.rep file that
\* another scan has uploaded already: every summary is uploaded at most
\* once, and is in one folder only.
C39_SummaryUploadedOnce ==
    /\ [](\A r \in RepFiles : Cardinality(Holding(optFolders, r)) <= 1)
    /\ [][\A s \in 1..MaxScans, t \in 1..MaxScans :
             (s # t /\ ScanUpload(s, "ok"))
                 => ~(/\ scans[t].pc = "move"
                      /\ scans[t].res = "ok"
                      /\ scans[t].cur = scans[s].cur)]_vars

(***************************************************************************)
(* One DownloadJobs call under any ceiling and retry budget                 *)
(* (downloader.go:37-44, 53-78, 98-195): a goroutine per job, the           *)
(* semaphore, the results channel of capacity len(jobs), the goroutine      *)
(* that closes it after wg.Wait, and the loop that counts the results.      *)
(***************************************************************************)
\* NewDownloadManager on any Config: the build's is MaxConcurrent = 3 and
\* RetryAttempts = 3 (config.go:140-141); make(chan struct{}, 0) is a channel
\* without buffer, on which the send of downloadJob:100 finds no receiver
InitAnyManager ==
    \E ceiling \in 0..MaxCeiling, budget \in 0..RetryAttempts :
        /\ InitBesidesManager(DefaultBurstPolling, DefaultExponentialBackoff, OnlyToDo({}))
        /\ batch = NewDownloadManager(ceiling, budget)

\* the steps of the goroutines of a call
BatchRuns ==
    \/ \E j \in 1..NBatchJobs : RunStep(<<1, j>>, AnyDescriptor)
    \/ CallStep(1)
    \/ DownloadPanicExits

NextAll ==
    \/ \E jobs \in SUBSET (1..NBatchJobs) : CallDownloadJobs(1, jobs)
    \/ BatchRuns
    \/ NextBatch(1)

\* every goroutine that can run does run, while the process lives: each
\* request ends within the HTTP client's timeout, each delay ends, and the
\* loop is bounded by the budget
SpecAll ==
    /\ InitAnyManager
    /\ [][NextAll]_vars
    /\ WF_vars(BatchRuns)

\* C40: for every job list, ceiling and retry budget, a DownloadJobs call
\* returns, and the statistics it returns have
\* Successful + Failed = Total.
C40_DownloadAllReturns ==
    /\ [](batch.calls[1].pc = "returned"
            => batch.calls[1].stats.Successful + batch.calls[1].stats.Failed
                   = batch.calls[1].stats.Total)
    /\ (batch.calls[1].pc = "collect") ~> (batch.calls[1].pc = "returned")

====
